---- MODULE Spec2Model ----
(***************************************************************************)
(* The staff-widget editor of music-notes: the debounced save, the gesture *)
(* handlers, widget initialisation and the load / import path of           *)
(* src/script.js (second DOMContentLoaded block, lines 442-940), and the   *)
(* per-key store variant of src/unnamed/part_000.                          *)
(*                                                                         *)
(* Abstractions.  The ink raster is a row of columns 0..MaxX, each blank,  *)
(* pencil ink or a note-head.  An encoded image (data URL) is the raster   *)
(* it encodes, or "bad" for a string that does not decode.  Markup         *)
(* (innerHTML) is the text plus, per widget node, its data-id, data-tool   *)
(* and which sub-elements it has.  Time is in milliseconds.                *)
(***************************************************************************)
EXTENDS Integers, Sequences, FiniteSets, TLC

VARIABLES
  doc,      \* the widget nodes of #editable-area in document order, each with
            \* its runtime state (canvas ink, 2d context, listener closures)
  text,     \* the text of #editable-area around the widgets
  nextId,   \* generateId: the next fresh id
  stored,   \* script.js: localStorage[stateKey], <<>> when absent
  ls,       \* part_000: localStorage: the content entry, the canvas_<id>
            \* entries, and the order in which key(i) enumerates keys
  deb,      \* the debounce closure of saveState and the timers it has set
  ghosts,   \* closures of detached canvases whose isDrawing is still true
  burst,    \* history: the time since the last saveState call
  ev        \* history: what the last handler did

vars == <<doc, text, nextId, stored, ls, deb, ghosts, burst, ev>>

----------------------------------------------------------------------------
(* Bounds *)

MaxIds == 2      \* widgets created by double-click in one run
MaxWidgets == 1  \* widgets in the document at one time
MaxX == 0        \* the ink raster has columns 0..MaxX
MaxDepth == 1    \* canvas state-stack depth explored
MaxInits == 2    \* initialisations of one canvas explored (part_000 resize)
MaxStaves == 2   \* part_000: widgets in the document at one time
TimeStep == 500  \* the longest single advance of time, in ms
MaxHeight == 64  \* display heights 1..MaxHeight given to the staff geometry
MaxClient == 140 \* editableArea.clientWidth 0..MaxClient given to initialize

(* Program constants *)

SaveWait == 1000     \* debounce(..., 1000)
eraserWidth == 10
pencilWidth == 2
resolutionMultiplier == 2
resolutionMultiplier_p0 == 4   \* part_000
numStaffLines == 5
staffLedgerSpace == 4
displayHeight == 64

Xs == 0..MaxX
Tools == {"write", "note", "erase"}
Shapes == {"ok", "noFg", "noButtons"}
Blank == [x \in Xs |-> ""]
\* canvas.width = finalDisplayWidth * resolutionMultiplier: the device pixels
\* of a canvas whose display width is w columns
canvasWidth(w) == w * resolutionMultiplier
Pixels == 0..(canvasWidth(MaxX + 1) - 1)
DefaultText == "Start typing here... or double-click to add a staff.<br><br>"
Texts == {"", DefaultText}

Min(a, b) == IF a < b THEN a ELSE b
Max(a, b) == IF a > b THEN a ELSE b

----------------------------------------------------------------------------
(* History record of the last handler *)

\*   kind      the handler that ran
\*   reqs      the saveState() calls it made
\*   alerts    the alert() notices it showed
\*   fails     the localStorage.setItem calls that threw
\*   wrote     a save changed or rewrote the store
\*   kept      the store holds exactly what it held before the handler
\*   w         the widget (position in doc) a gesture event was delivered to
\*   n         the listener closures that acted on the event
\*   op        how a pointer-move edited the ink: "pencil", "erase", "note"
\*   downTool  the tool selected at the pointer-down of that gesture
\*   bad       an import whose input is not a well-formed snapshot
\*   same      an import that left document, ink and store as they were
\*   canv      the canvases mapping of the snapshot a load or import installed
\*   obj       the object an import handed to loadStateFromObject
\*   img       the image whose decode ended
\*   h         the display height given to the staff geometry
\*   line      the staff line number given to getYForStaffLineNumber
\*   y         the y given to, or returned by, the staff geometry
\*   snap      the line number getStaffLineNumber returned
\*   ys        the y of the five lines drawStaffLines drew
\*   x, py     the pointer position of a gesture event on the ink canvas
\*   yy        the y the note-head of that event was snapped to
\*   changed   the columns of the ink canvas whose ink the handler changed
\*   g         the gesture the event belongs to: the tool at its pointer-down,
\*             the x of its points, whether the ink was blank before it,
\*             whether it began while another was in progress
\*   prev      the gesture that ended before g began
\*   pre       per widget, its ink and whether it was Drawing before the handler
\*   per       per widget, the saveState() calls its listener closures made
\*   cw        editableArea.clientWidth when initializeStaffContainer ran
NoGesture == [tool |-> "", pts |-> <<>>, blank0 |-> FALSE, nested |-> FALSE]

NoEv == [kind |-> "init", reqs |-> 0, alerts |-> 0, fails |-> 0,
         wrote |-> FALSE, kept |-> TRUE, w |-> 0, n |-> 0, op |-> "",
         downTool |-> "", bad |-> FALSE, same |-> TRUE, canv |-> <<>>,
         obj |-> <<>>, img |-> <<>>, h |-> 0, line |-> 0,
         y |-> [n |-> 0, d |-> 1], snap |-> [n |-> 0, d |-> 1], ys |-> <<>>,
         x |-> 0, py |-> 0, yy |-> 0, changed |-> {}, g |-> NoGesture,
         prev |-> NoGesture, pre |-> <<>>, per |-> <<>>, cw |-> 0]

Ev(kind) == [NoEv EXCEPT !.kind = kind]

----------------------------------------------------------------------------
(* debounce, script.js 456-466 *)

clearTimeout(timers, h) == [k \in DOMAIN timers \ {h} |-> timers[k]]

NewHandle(timers) ==
  CHOOSE k \in 1..(Cardinality(DOMAIN timers) + 1) : k \notin DOMAIN timers

setTimeout(timers, h, wait) ==
  [k \in DOMAIN timers \cup {h} |-> IF k = h THEN wait ELSE timers[k]]

\* a debounce that never cancels the timer it set before
executedFunction_noClear(d) ==
  LET h == NewHandle(d.timers)
  IN  [d EXCEPT !.timers = setTimeout(d.timers, h, SaveWait), !.timeout = h]

\* executedFunction: clearTimeout(timeout); timeout = setTimeout(later, wait)
executedFunction(d) ==
  LET cleared == clearTimeout(d.timers, d.timeout)
      h == NewHandle(cleared)
  IN  [d EXCEPT !.timers = setTimeout(cleared, h, SaveWait), !.timeout = h]

\* n calls of saveState() made by one handler
RECURSIVE saveStateCalls(_, _)
saveStateCalls(d, n) ==
  IF n = 0 THEN d ELSE saveStateCalls(executedFunction(d), n - 1)

Pending(d) == DOMAIN d.timers

\* the history of the burst after a handler that called saveState() n times
Triggered(n) ==
  IF n = 0 THEN burst
  ELSE [since |-> 0, owed |-> TRUE,
        rearmed |-> Pending(deb) # {} \/ n > 1]

----------------------------------------------------------------------------
(* Markup and snapshots *)

\* what innerHTML holds of one widget node
NodeMarkup(n) == [id |-> n.id, tool |-> n.tool, shape |-> n.shape]

Markup(d, t) == [text |-> t, nodes |-> [i \in DOMAIN d |-> NodeMarkup(d[i])]]

\* a markup string is falsy in `if (savedContent)` when it is empty
IsEmptyMarkup(m) == m.text = "" /\ m.nodes = <<>>

HasFg(n) == n.shape # "noFg"

\* toDataURL throws SecurityError on a canvas an image of another origin was
\* drawn on; the catch of buildStateObject skips the entry
CanExport(n) == HasFg(n) /\ ~n.tainted

\* buildStateObject, script.js 477-502: the canvases mapping; a later
\* container with the same id overwrites an earlier one
LastWith(d, id) ==
  CHOOSE i \in DOMAIN d :
    /\ d[i].id = id /\ CanExport(d[i])
    /\ \A j \in DOMAIN d : (d[j].id = id /\ CanExport(d[j])) => j <= i

\* canvas.toDataURL('image/png') and what decoding an image string gives:
\* the bitmap has canvas.width device pixels, resolutionMultiplier of them
\* for each display column (ctx.scale of initializeStaffContainer)
toDataURL(ink) ==
  [ok |-> TRUE, foreign |-> FALSE,
   px |-> [p \in Pixels |-> ink[p \div resolutionMultiplier]]]

\* a string that is no image: img.onerror
BadImage == [ok |-> FALSE, foreign |-> FALSE, px |-> [p \in Pixels |-> ""]]

\* the URL of an image served by another origin without CORS approval
ForeignImage == [ok |-> TRUE, foreign |-> TRUE, px |-> [p \in Pixels |-> "p"]]

\* a buildCanvases whose forEach ends at the first toDataURL that throws
buildCanvases_abortOnThrow(d) ==
  LET stop == {i \in DOMAIN d : HasFg(d[i]) /\ d[i].tainted}
      upTo == IF stop = {} THEN Len(d)
              ELSE (CHOOSE i \in stop : \A j \in stop : i <= j) - 1
      ids == {d[i].id : i \in {j \in 1..upTo : HasFg(d[j])}}
  IN  [id \in ids |-> toDataURL(d[LastWith(d, id)].ink)]

buildCanvases(d) ==
  LET ids == {d[i].id : i \in {j \in DOMAIN d : CanExport(d[j])}}
  IN  [id \in ids |-> toDataURL(d[LastWith(d, id)].ink)]

buildStateObject(d, t) ==
  [content |-> Markup(d, t), canvases |-> buildCanvases(d)]

----------------------------------------------------------------------------
(* A widget node and its 2d context *)

\* a canvas whose width was just assigned: cleared, context state reset.
\* tf: the current transform, a uniform scale by tf
FreshCtx == [gco |-> "source-over", lw |-> 1, tf |-> 1, stack |-> <<>>]

\* <<width, height>> of a canvas element without width and height
\* attributes, as the markup of the dblclick listener has it
DefaultCanvas == <<300, 150>>

NewClosure == [isDrawing |-> FALSE, lastX |-> 0, downTool |-> ""]

\* a node as innerHTML = markup creates it: blank canvases, no listeners.
\* layers: <<width, height>> of the style and of the backing store of the
\* two canvases, the scale of the lines canvas's transform (that of the
\* ink canvas is ctx.tf), and what the lines canvas shows: the staff lines
\* of a canvas of display height lines, nothing when lines = 0
NodeFromMarkup(m) ==
  [id |-> m.id, tool |-> m.tool, shape |-> m.shape, ink |-> Blank,
   ctx |-> FreshCtx, hs |-> <<>>, imgs |-> <<>>, tainted |-> FALSE,
   layers |-> [style |-> <<0, 0>>, bg |-> DefaultCanvas, fg |-> DefaultCanvas,
               bgtf |-> FreshCtx.tf, lines |-> 0],
   active |-> {}]

Drawing(n) == \E k \in DOMAIN n.hs : n.hs[k].isDrawing

DrawingCount(n) == Cardinality({k \in DOMAIN n.hs : n.hs[k].isDrawing})

RECURSIVE SumDrawing(_, _)
SumDrawing(d, i) ==
  IF i = 0 THEN 0 ELSE DrawingCount(d[i]) + SumDrawing(d, i - 1)

\* ctx.save() / ctx.restore()
ctxSave(c) ==
  [c EXCEPT !.stack = Append(@, [gco |-> c.gco, lw |-> c.lw, tf |-> c.tf])]

ctxRestore(c) ==
  IF c.stack = <<>> THEN c
  ELSE LET top == c.stack[Len(c.stack)]
       IN  [gco |-> top.gco, lw |-> top.lw, tf |-> top.tf,
            stack |-> SubSeq(c.stack, 1, Len(c.stack) - 1)]

\* painting one column under the context's globalCompositeOperation
Paint(cell, what, gco) ==
  IF gco = "destination-out" THEN ""
  ELSE IF cell = "n" THEN "n" ELSE what

Between(a, b) == Min(a, b)..Max(a, b)

\* ctx.setTransform(m, 0, 0, m, 0, 0)
setTransform(c, m) == [c EXCEPT !.tf = m]

\* a ctx.scale that leaves the transform as it is
scale_none(c, m) == c

\* ctx.scale(m, m)
scale(c, m) == [c EXCEPT !.tf = @ * m]

\* the style and backing sizes and the lines canvas's transform that the
\* forEach over the two canvases leaves, script.js 585-594, for the display
\* width w and the multiplier m
Layers(w, m) ==
  [style |-> <<w, displayHeight>>,
   bg |-> <<w * m, displayHeight * m>>,
   fg |-> <<w * m, displayHeight * m>>,
   bgtf |-> scale(setTransform(FreshCtx, 1), m).tf,
   lines |-> 0]

\* drawStaffLines(bgCanvas, bgCtx), script.js 776-794: clears the lines
\* canvas and strokes the staff for parseFloat(canvas.style.height)
drawStaffLines(n) == [n EXCEPT !.layers.lines = n.layers.style[2]]

\* the forEach over the two canvases, script.js 585-594, for a display width
\* of MaxX + 1 and the multiplier m; assigning canvas.width resets the
\* canvas and its context
configureCanvases(n, m) ==
  [n EXCEPT !.layers = Layers(MaxX + 1, m),
            !.ctx = scale(setTransform(FreshCtx, 1), m),
            !.ink = Blank]

\* the buttons marked active for the tool t, script.js 630-632
ActiveButtons(t, buttons) == {b \in buttons : b = t}

\* initializeStaffContainer, script.js 555-636
initializeStaffContainer(n) ==
  IF n.shape # "ok" THEN n
  ELSE LET currentTool == IF n.tool = "" THEN "write" ELSE n.tool
       IN  [drawStaffLines(configureCanvases(n, resolutionMultiplier)) EXCEPT
              !.hs = Append(@, NewClosure),
              !.tool = currentTool,
              !.active = ActiveButtons(currentTool, Tools)]

----------------------------------------------------------------------------
(* Gesture handlers of one listener closure k of node n, script.js 796-905 *)

\* drawNotehead, script.js 816-830
drawNotehead(n, k, x) ==
  LET band == Between(n.hs[k].lastX, x)
  IN  [n EXCEPT !.ink = [c \in Xs |->
         IF c = x THEN Paint("", "n", n.ctx.gco)
         ELSE IF c \in band THEN "" ELSE n.ink[c]]]

\* startDrawing, script.js 832-857 (the event's target is the canvas)
startDrawing(n, k, x) ==
  LET n1 == [n EXCEPT !.hs[k] = [isDrawing |-> TRUE, lastX |-> x,
                                 downTool |-> n.tool],
                      !.ctx = ctxSave(@)]
  IN  IF n.tool = "erase"
        THEN [n1 EXCEPT !.ctx.gco = "destination-out", !.ctx.lw = eraserWidth]
      ELSE IF n.tool = "write"
        THEN [n1 EXCEPT !.ctx.gco = "source-over", !.ctx.lw = pencilWidth]
      ELSE IF n.tool = "note" THEN drawNotehead(n1, k, x)
      ELSE n1

\* the edit a pointer-move makes, as the context is set up
StrokeOp(n) ==
  IF n.tool = "note" THEN "note"
  ELSE IF n.ctx.gco = "destination-out" THEN "erase" ELSE "pencil"

\* a draw that does not look at isDrawing
draw_always(n, k, x) ==
  LET m == IF n.tool = "note" THEN drawNotehead(n, k, x)
           ELSE [n EXCEPT !.ink = [c \in Xs |->
                   IF c \in Between(n.hs[k].lastX, x)
                   THEN Paint(n.ink[c], "p", n.ctx.gco)
                   ELSE n.ink[c]]]
  IN  [m EXCEPT !.hs[k].lastX = x]

\* draw, script.js 860-876
draw(n, k, x) ==
  IF ~n.hs[k].isDrawing THEN n
  ELSE LET m == IF n.tool = "note" THEN drawNotehead(n, k, x)
                ELSE [n EXCEPT !.ink = [c \in Xs |->
                        IF c \in Between(n.hs[k].lastX, x)
                        THEN Paint(n.ink[c], "p", n.ctx.gco)
                        ELSE n.ink[c]]]
       IN  [m EXCEPT !.hs[k].lastX = x]

\* a stopDrawing that leaves isDrawing set
stopDrawing_stay(n, k) == n

\* stopDrawing, script.js 878-888, without its saveState() call.  lastX is
\* dead while idle (startDrawing assigns it before any read): it is kept 0.
stopDrawing(n, k) ==
  IF ~n.hs[k].isDrawing THEN n
  ELSE [n EXCEPT !.hs[k] = NewClosure, !.ctx = ctxRestore(@)]

\* every closure registered on the canvas receives the event, in order
RECURSIVE startAll(_, _, _)
startAll(n, k, x) ==
  IF k > Len(n.hs) THEN n ELSE startAll(startDrawing(n, k, x), k + 1, x)

RECURSIVE drawAll(_, _, _)
drawAll(n, k, x) ==
  IF k > Len(n.hs) THEN n ELSE drawAll(draw(n, k, x), k + 1, x)

RECURSIVE stopAll(_, _)
stopAll(n, k) ==
  IF k > Len(n.hs) THEN n ELSE stopAll(stopDrawing(n, k), k + 1)

----------------------------------------------------------------------------
(* Loading a snapshot, script.js 519-552 and 744-760 *)

\* A parsed snapshot object: has.. tell which properties it carries.
Snapshot(hasContent, content, hasCanvases, canvases) ==
  [hasContent |-> hasContent, content |-> content,
   hasCanvases |-> hasCanvases, canvases |-> canvases]

NoMarkup == [text |-> "", nodes |-> <<>>]

EmptyObject == Snapshot(FALSE, NoMarkup, FALSE, <<>>)

\* a forEach that also throws when canvases has a key no container has
Throws_unknownKey(s, i) ==
  \/ s.content.nodes[i].shape = "noFg" \/ ~s.hasCanvases
  \/ \E id \in DOMAIN s.canvases :
       \A j \in DOMAIN s.content.nodes : s.content.nodes[j].id # id

\* the container at which the forEach of loadStateFromObject throws:
\* fgCanvas.getContext on a missing canvas, or canvases[id] of undefined
Throws(s, i) == s.content.nodes[i].shape = "noFg" \/ ~s.hasCanvases

FirstThrow(s) ==
  LET bad == {i \in DOMAIN s.content.nodes : Throws(s, i)}
  IN  IF bad = {} THEN 0 ELSE CHOOSE i \in bad : \A j \in bad : i <= j

\* loadImageOntoCanvas: the decode is pending until onload / onerror
loadImageOntoCanvas(n, img) == [n EXCEPT !.imgs = Append(@, img)]

\* one container of the forEach, script.js 526-536
loadContainer(s, m) ==
  LET n == initializeStaffContainer(NodeFromMarkup(m))
  IN  IF m.id \in DOMAIN s.canvases
      THEN loadImageOntoCanvas(n, s.canvases[m.id]) ELSE n

\* a loadStateFromObject that installs no default content
loadStateFromObject_noDefault(s) ==
  [doc |-> <<>>, text |-> "", threw |-> FALSE]

\* loadStateFromObject: the document it leaves, and whether it threw
loadStateFromObject(s) ==
  IF ~s.hasContent \/ IsEmptyMarkup(s.content)
  THEN [doc |-> <<>>, text |-> DefaultText, threw |-> FALSE]
  ELSE LET t == FirstThrow(s)
           ns == s.content.nodes
       IN  [doc |-> [i \in DOMAIN ns |->
                      IF t = 0 \/ i < t THEN loadContainer(s, ns[i])
                      ELSE IF i = t
                        THEN initializeStaffContainer(NodeFromMarkup(ns[i]))
                      ELSE NodeFromMarkup(ns[i])],
            text |-> s.content.text,
            threw |-> t # 0]

\* an onload that draws nothing
drawImage_skip(n, img) == n

\* an onload that clears the lines canvas
drawImage_onLines(n, img) == [n EXCEPT !.layers.lines = 0]

\* img.onload of loadImageOntoCanvas, script.js 746-755: save, setTransform,
\* drawImage under the context's state, restore.  The image, img.width
\* pixels wide, is scaled into a rectangle of canvas.width /
\* resolutionMultiplier units under the transform resolutionMultiplier; an
\* image of another origin taints the canvas.
drawImage(n, img) ==
  LET c1 == setTransform(ctxSave(n.ctx), resolutionMultiplier)
      srcW == Cardinality(DOMAIN img.px)
      dstW == (n.layers.fg[1] \div resolutionMultiplier) * c1.tf
      src(c) == img.px[(c * c1.tf * srcW) \div dstW]
  IN  [n EXCEPT !.ink = [c \in Xs |->
                  IF src(c) = "" THEN n.ink[c]
                  ELSE Paint(n.ink[c], src(c), c1.gco)],
                !.ctx = ctxRestore(c1),
                !.tainted = @ \/ img.foreign]

----------------------------------------------------------------------------
(* Inputs *)

\* ids of widgets that come from pasted snapshots (made on another device)
ImportIdA == MaxIds + 1
ImportIdB == MaxIds + 2

InkP == [x \in Xs |-> IF x = 0 THEN "p" ELSE ""]

Node(id, tool, shape) == [id |-> id, tool |-> tool, shape |-> shape]

OneWidget == [text |-> DefaultText, nodes |-> <<Node(ImportIdA, "note", "ok")>>]
TextOnly == [text |-> DefaultText, nodes |-> <<>>]
NoFgFirst == [text |-> DefaultText, nodes |-> <<Node(ImportIdA, "write", "noFg"),
                                         Node(ImportIdB, "write", "ok")>>]
NoButtonsFirst ==
  [text |-> DefaultText, nodes |-> <<Node(ImportIdA, "write", "noButtons"),
                             Node(ImportIdB, "erase", "ok")>>]

TwoWidgets == [text |-> DefaultText, nodes |-> <<Node(ImportIdA, "write", "ok"),
                                          Node(ImportIdB, "erase", "ok")>>]

\* markup in which two containers carry the same data-id
SameIdTwice == [text |-> DefaultText, nodes |-> <<Node(ImportIdA, "write", "ok"),
                                           Node(ImportIdA, "note", "ok")>>]

\* markup whose container has no data-tool, and one whose data-tool is not
\* the name of a tool button
NoToolWidget == [text |-> DefaultText, nodes |-> <<Node(ImportIdA, "", "ok")>>]
OtherToolWidget ==
  [text |-> DefaultText, nodes |-> <<Node(ImportIdA, "pen", "ok")>>]

InkOfA == (ImportIdA :> toDataURL(InkP))
ForeignInkOfA == (ImportIdA :> ForeignImage) @@ (ImportIdB :> toDataURL(InkP))
InkOfBoth == (ImportIdA :> toDataURL(InkP)) @@ (ImportIdB :> toDataURL(InkP))
\* a string that does not decode for the first widget, an image for the second
BadInkOfA == (ImportIdA :> BadImage) @@ (ImportIdB :> toDataURL(InkP))

\* what the paste box can hold: text JSON.parse rejects, JSON that is not
\* an object, and objects
Payloads ==
  { [json |-> "unparseable", obj |-> EmptyObject],
    [json |-> "null", obj |-> EmptyObject],
    [json |-> "number", obj |-> EmptyObject],
    [json |-> "object", obj |-> EmptyObject],
    [json |-> "object", obj |-> Snapshot(TRUE, NoMarkup, TRUE, <<>>)],
    [json |-> "object", obj |-> Snapshot(TRUE, OneWidget, FALSE, <<>>)],
    [json |-> "object", obj |-> Snapshot(TRUE, TextOnly, FALSE, <<>>)],
    [json |-> "object", obj |-> Snapshot(TRUE, OneWidget, TRUE, InkOfA)],
    [json |-> "object",
     obj |-> Snapshot(TRUE, OneWidget, TRUE, (ImportIdA :> BadImage))],
    [json |-> "object", obj |-> Snapshot(TRUE, OneWidget, TRUE, InkOfBoth)],
    [json |-> "object", obj |-> Snapshot(TRUE, TwoWidgets, TRUE, ForeignInkOfA)],
    [json |-> "object", obj |-> Snapshot(TRUE, SameIdTwice, TRUE, InkOfA)],
    [json |-> "object", obj |-> Snapshot(TRUE, NoToolWidget, TRUE, InkOfA)],
    [json |-> "object", obj |-> Snapshot(TRUE, OtherToolWidget, TRUE, InkOfA)],
    [json |-> "object", obj |-> Snapshot(TRUE, NoFgFirst, TRUE, InkOfBoth)],
    [json |-> "object",
     obj |-> Snapshot(TRUE, NoButtonsFirst, TRUE, InkOfBoth)] }

\* an input that is not a well-formed snapshot
Malformed(p) ==
  \/ p.json # "object"
  \/ ~p.obj.hasContent
  \/ IsEmptyMarkup(p.obj.content)
  \/ ~p.obj.hasCanvases /\ p.obj.content.nodes # <<>>

----------------------------------------------------------------------------
(* part_000: the store, one key per entry *)

\* keys: 0 is contentKey, id is canvasDataPrefix + id
KeyOrders ==
  {o \in [1..(MaxIds + 1) -> 0..MaxIds] :
     \A a, b \in 1..(MaxIds + 1) : o[a] = o[b] => a = b}

IdentityOrder == [k \in 1..(MaxIds + 1) |-> k - 1]

EmptyStore(order) == [order |-> order, content |-> <<>>, inks |-> <<>>]

HasKey(st, k) == IF k = 0 THEN st.content # <<>> ELSE k \in DOMAIN st.inks

\* localStorage.key(i - 1), for i in 1..localStorage.length
RECURSIVE KeysFrom(_, _)
KeysFrom(st, a) ==
  IF a > Len(st.order) THEN <<>>
  ELSE IF HasKey(st, st.order[a])
    THEN <<st.order[a]>> \o KeysFrom(st, a + 1)
  ELSE KeysFrom(st, a + 1)

Keys(st) == KeysFrom(st, 1)

removeItem(st, k) ==
  [st EXCEPT !.inks = [j \in DOMAIN st.inks \ {k} |-> st.inks[j]]]

\* the clean-up loop of saveState, part_000 64-70: i advances past the key
\* that takes the place of a removed one
RECURSIVE cleanupFrom(_, _, _)
cleanupFrom(st, current, i) ==
  IF i > Len(Keys(st)) THEN st
  ELSE LET key == Keys(st)[i]
       IN  IF key # 0 /\ key \notin current
           THEN cleanupFrom(removeItem(st, key), current, i + 1)
           ELSE cleanupFrom(st, current, i + 1)

\* the debounced function of saveState, part_000 33-80.  failContent: the
\* setItem of the markup throws QuotaExceededError; failInk: the ids whose
\* canvas setItem throws it
saveState_p0(st, d, t, failContent, failInk) ==
  IF failContent THEN [ls |-> st, alerts |-> 1, fails |-> 1]
  ELSE LET s1 == [st EXCEPT !.content = <<Markup(d, t)>>]
           current == {d[i].id : i \in {j \in DOMAIN d : HasFg(d[j])}}
           written == {d[i].id : i \in {j \in DOMAIN d : CanExport(d[j])}}
                        \ failInk
           s2 == [s1 EXCEPT !.inks =
                    [id \in DOMAIN s1.inks \cup written |->
                       IF id \in written
                       THEN toDataURL(d[LastWith(d, id)].ink)
                       ELSE s1.inks[id]]]
       IN  [ls |-> cleanupFrom(s2, current, 1), alerts |-> 0,
            fails |-> Cardinality(current \cap failInk)]

\* initializeStaffContainer, part_000 105-201
initializeStaffContainer_p0(n, st) ==
  IF n.shape # "ok" THEN n
  ELSE LET currentTool == IF n.tool = "" THEN "write" ELSE n.tool
       IN  [drawStaffLines(configureCanvases(n, resolutionMultiplier_p0))
             EXCEPT
              !.imgs = IF n.id \in DOMAIN st.inks
                       THEN Append(@, st.inks[n.id]) ELSE @,
              !.hs = Append(@, NewClosure),
              !.tool = currentTool,
              !.active = ActiveButtons(currentTool, {"write", "erase"})]

\* startDrawing, part_000 296-319
startDrawing_p0(n, k, x) ==
  LET n1 == [n EXCEPT !.hs[k] = [isDrawing |-> TRUE, lastX |-> x,
                                 downTool |-> n.tool],
                      !.ctx = ctxSave(@)]
  IN  IF n.tool = "erase"
      THEN [n1 EXCEPT !.ctx.gco = "destination-out", !.ctx.lw = eraserWidth]
      ELSE [n1 EXCEPT !.ctx.gco = "source-over", !.ctx.lw = pencilWidth]

\* draw, part_000 321-332
draw_p0(n, k, x) ==
  IF ~n.hs[k].isDrawing THEN n
  ELSE [n EXCEPT !.ink = [c \in Xs |->
                   IF c \in Between(n.hs[k].lastX, x)
                   THEN Paint(n.ink[c], "p", n.ctx.gco) ELSE n.ink[c]],
                 !.hs[k].lastX = x]

RECURSIVE startAll_p0(_, _, _)
startAll_p0(n, k, x) ==
  IF k > Len(n.hs) THEN n ELSE startAll_p0(startDrawing_p0(n, k, x), k + 1, x)

RECURSIVE drawAll_p0(_, _, _)
drawAll_p0(n, k, x) ==
  IF k > Len(n.hs) THEN n ELSE drawAll_p0(draw_p0(n, k, x), k + 1, x)

\* loadState, part_000 83-102
loadState_p0(st) ==
  IF st.content = <<>> \/ IsEmptyMarkup(st.content[1])
  THEN [doc |-> <<>>, text |-> DefaultText]
  ELSE [doc |-> [i \in DOMAIN st.content[1].nodes |->
                  initializeStaffContainer_p0(
                    NodeFromMarkup(st.content[1].nodes[i]), st)],
        text |-> st.content[1].text]

----------------------------------------------------------------------------
(* State after construction: loadState() found no stored snapshot *)

Init ==
  /\ doc = <<>>
  /\ text = DefaultText
  /\ nextId = 1
  /\ stored = <<>>
  /\ ls = EmptyStore(IdentityOrder)
  /\ deb = [timers |-> <<>>, timeout |-> 0]
  /\ ghosts = 0
  /\ burst = [since |-> SaveWait, owed |-> FALSE, rearmed |-> FALSE]
  /\ ev = NoEv

\* the handler called saveState() n times
Requests(n) ==
  /\ deb' = saveStateCalls(deb, n)
  /\ burst' = Triggered(n)

----------------------------------------------------------------------------
(* Handlers of script.js *)

\* 'input' listener, script.js 736-741: the user edits the text
Input(t) ==
  /\ t # text
  /\ text' = t
  /\ Requests(1)
  /\ ev' = [Ev("input") EXCEPT !.reqs = 1]
  /\ UNCHANGED <<doc, nextId, stored, ls, ghosts>>

RemoveAt(d, i) == [j \in 1..(Len(d) - 1) |-> IF j < i THEN d[j] ELSE d[j + 1]]

InsertAt(d, i, n) ==
  [j \in 1..(Len(d) + 1) |-> IF j < i THEN d[j]
                              ELSE IF j = i THEN n ELSE d[j - 1]]

\* the user deletes widget i from the text; its 'input' event saves
RemoveWidget(i) ==
  /\ i \in DOMAIN doc
  /\ doc' = RemoveAt(doc, i)
  /\ ghosts' = ghosts + DrawingCount(doc[i])
  /\ Requests(1)
  /\ ev' = [Ev("remove") EXCEPT !.reqs = 1]
  /\ UNCHANGED <<text, nextId, stored, ls>>

\* 'dblclick' listener, script.js 710-733
CreateWidget(pos) ==
  /\ nextId <= MaxIds
  /\ Len(doc) < MaxWidgets
  /\ pos \in 1..(Len(doc) + 1)
  /\ doc' = InsertAt(doc, pos, initializeStaffContainer(
               NodeFromMarkup(Node(nextId, "write", "ok"))))
  /\ nextId' = nextId + 1
  /\ Requests(1)
  /\ ev' = [Ev("create") EXCEPT !.reqs = 1, !.w = pos]
  /\ UNCHANGED <<text, stored, ls, ghosts>>

\* tool-buttons 'click' listener, script.js 615-625
SetTool(i, t) ==
  /\ i \in DOMAIN doc
  /\ doc[i].shape = "ok" /\ doc[i].hs # <<>>
  /\ t # doc[i].tool
  /\ doc' = [doc EXCEPT ![i].tool = t, ![i].active = ActiveButtons(t, Tools)]
  /\ ev' = [Ev("tool") EXCEPT !.w = i]
  /\ UNCHANGED <<text, nextId, stored, ls, deb, ghosts, burst>>

\* mousedown / touchstart on the ink canvas of widget i
PointerDown(i, x) ==
  /\ i \in DOMAIN doc
  /\ HasFg(doc[i]) /\ doc[i].hs # <<>>
  /\ Len(doc[i].ctx.stack) + Len(doc[i].hs) <= MaxDepth
  /\ doc' = [doc EXCEPT ![i] = startAll(@, 1, x)]
  /\ ev' = [Ev("down") EXCEPT !.w = i, !.n = Len(doc[i].hs),
                               !.downTool = doc[i].tool]
  /\ UNCHANGED <<text, nextId, stored, ls, deb, ghosts, burst>>

\* mousemove / touchmove delivered to the ink canvas of widget i
PointerMove(i, x) ==
  /\ i \in DOMAIN doc
  /\ Drawing(doc[i])
  /\ doc' = [doc EXCEPT ![i] = drawAll(@, 1, x)]
  /\ ev' = [Ev("move") EXCEPT
              !.w = i, !.n = DrawingCount(doc[i]), !.op = StrokeOp(doc[i]),
              !.downTool = doc[i].hs[CHOOSE k \in DOMAIN doc[i].hs :
                                      doc[i].hs[k].isDrawing].downTool]
  /\ UNCHANGED <<text, nextId, stored, ls, deb, ghosts, burst>>

\* the widgets as a handler finds them
Pre(d) == [i \in DOMAIN d |-> [ink |-> d[i].ink, drawing |-> Drawing(d[i])]]

\* a stopDrawing that ends the gesture without calling saveState()
PointerUp_noSave ==
  /\ ghosts + SumDrawing(doc, Len(doc)) > 0
  /\ doc' = [i \in DOMAIN doc |-> stopAll(doc[i], 1)]
  /\ ghosts' = 0
  /\ ev' = [Ev("up") EXCEPT !.n = SumDrawing(doc, Len(doc)),
                             !.pre = Pre(doc),
                             !.per = [i \in DOMAIN doc |-> 0]]
  /\ UNCHANGED <<text, nextId, stored, ls, deb, burst>>

\* mouseup / touchend on window: every closure's stopDrawing runs
PointerUp ==
  /\ ghosts + SumDrawing(doc, Len(doc)) > 0
  /\ doc' = [i \in DOMAIN doc |-> stopAll(doc[i], 1)]
  /\ ghosts' = 0
  /\ Requests(ghosts + SumDrawing(doc, Len(doc)))
  /\ ev' = [Ev("up") EXCEPT !.reqs = ghosts + SumDrawing(doc, Len(doc)),
                             !.n = SumDrawing(doc, Len(doc)),
                             !.pre = Pre(doc),
                             !.per = [i \in DOMAIN doc |->
                                        DrawingCount(doc[i])]]
  /\ UNCHANGED <<text, nextId, stored, ls>>

\* touchcancel on the ink canvas of widget i
TouchCancel(i) ==
  /\ i \in DOMAIN doc
  /\ Drawing(doc[i])
  /\ doc' = [doc EXCEPT ![i] = stopAll(@, 1)]
  /\ Requests(DrawingCount(doc[i]))
  /\ ev' = [Ev("cancel") EXCEPT !.reqs = DrawingCount(doc[i]), !.w = i,
                                 !.n = DrawingCount(doc[i]),
                                 !.pre = Pre(doc),
                                 !.per = [j \in DOMAIN doc |->
                                            IF j = i THEN DrawingCount(doc[i])
                                            ELSE 0]]
  /\ UNCHANGED <<text, nextId, stored, ls, ghosts>>

\* the target of a pointer-move: a mousemove has the element under the
\* pointer, a touchmove the element its touch began on
MoveTarget(device, under) == IF device = "touch" THEN "canvas" ELSE under

\* canvas.addEventListener(type, listener), script.js 892-904: a listener of
\* the canvas, which has no descendants, runs for the events whose target
\* the canvas is
OnCanvas(target) == target = "canvas"

NoRequests(d) == [i \in DOMAIN d |-> 0]

\* a pointer-move past the edge of the ink canvas of widget i, which is
\* Drawing: the mouse is over another element, the finger still has the
\* canvas as target
PointerMoveOutside(i, device) ==
  /\ i \in DOMAIN doc
  /\ Drawing(doc[i])
  /\ LET runs == OnCanvas(MoveTarget(device, "other"))
     IN  /\ doc' = IF runs THEN [doc EXCEPT ![i] = drawAll(@, 1, MaxX + 1)]
                   ELSE doc
         /\ ev' = [Ev("moveOut") EXCEPT
                     !.w = i,
                     !.n = IF runs THEN DrawingCount(doc[i]) ELSE 0,
                     !.op = IF runs THEN StrokeOp(doc[i]) ELSE "",
                     !.pre = Pre(doc), !.per = NoRequests(doc)]
  /\ UNCHANGED <<text, nextId, stored, ls, deb, ghosts, burst>>

\* mousemove / touchmove delivered to the ink canvas of widget i, Idle
PointerMoveIdle(i, x) ==
  /\ i \in DOMAIN doc
  /\ HasFg(doc[i]) /\ doc[i].hs # <<>>
  /\ ~Drawing(doc[i])
  /\ doc' = [doc EXCEPT ![i] = drawAll(@, 1, x)]
  /\ ev' = [Ev("moveIdle") EXCEPT !.w = i, !.pre = Pre(doc),
                                   !.per = NoRequests(doc)]
  /\ UNCHANGED <<text, nextId, stored, ls, deb, ghosts, burst>>

\* mousedown / touchstart on widget i, on an element other than its ink
\* canvas: the lines canvas, a tool button
PointerDownElsewhere(i) ==
  /\ i \in DOMAIN doc
  /\ HasFg(doc[i]) /\ doc[i].hs # <<>>
  /\ doc' = IF OnCanvas("other") THEN [doc EXCEPT ![i] = startAll(@, 1, 0)]
            ELSE doc
  /\ ev' = [Ev("downOff") EXCEPT !.w = i, !.pre = Pre(doc),
                                  !.per = NoRequests(doc)]
  /\ UNCHANGED <<text, nextId, stored, ls, deb, ghosts, burst>>

\* mouseup / touchend on window while no closure is Drawing
PointerUpIdle ==
  /\ ghosts + SumDrawing(doc, Len(doc)) = 0
  /\ doc # <<>>
  /\ doc' = [i \in DOMAIN doc |-> stopAll(doc[i], 1)]
  /\ Requests(SumDrawing(doc, Len(doc)))
  /\ ev' = [Ev("upIdle") EXCEPT !.pre = Pre(doc),
                                 !.per = [i \in DOMAIN doc |->
                                            DrawingCount(doc[i])]]
  /\ UNCHANGED <<text, nextId, stored, ls, ghosts>>

onerror_clear(n, img) == [n EXCEPT !.ink = Blank]

\* img.onerror: the failure is logged, nothing is drawn
onerror(n, img) == n

\* img.onload / img.onerror of a pending decode of widget i
DecodeDone(i) ==
  /\ i \in DOMAIN doc
  /\ doc[i].imgs # <<>>
  /\ LET img == Head(doc[i].imgs)
         n == [doc[i] EXCEPT !.imgs = Tail(@)]
     IN  doc' = [doc EXCEPT ![i] = IF img.ok THEN drawImage(n, img)
                                   ELSE onerror(n, img)]
  /\ ev' = [Ev("decode") EXCEPT !.w = i, !.img = Head(doc[i].imgs)]
  /\ UNCHANGED <<text, nextId, stored, ls, deb, ghosts, burst>>

\* time passes, up to the next timer's due time
Advance ==
  /\ Pending(deb) # {}
  /\ \A h \in Pending(deb) : deb.timers[h] > 0
  /\ LET due == CHOOSE r \in {deb.timers[h] : h \in Pending(deb)} :
                  \A h \in Pending(deb) : r <= deb.timers[h]
         d == Min(TimeStep, due)
     IN  /\ deb' = [deb EXCEPT !.timers = [h \in DOMAIN @ |-> @[h] - d]]
         /\ burst' = [burst EXCEPT !.since = Min(SaveWait, @ + d)]
  /\ ev' = Ev("tick")
  /\ UNCHANGED <<doc, text, nextId, stored, ls, ghosts>>

\* `later` of debounce, script.js 459-462, for the timer with handle h
later(d, h) ==
  [d EXCEPT !.timers = clearTimeout(clearTimeout(@, h), d.timeout)]

\* JSON.parse(JSON.stringify(state))
Parsed(state) == Snapshot(TRUE, state.content, TRUE, state.canvases)

\* the timer of saveState fires: the debounced function of script.js 505-516
\* runs; quota tells whether localStorage.setItem throws QuotaExceededError
SaveTimerFires(h, quota) ==
  /\ h \in Pending(deb)
  /\ deb.timers[h] = 0
  /\ deb' = later(deb, h)
  /\ burst' = [burst EXCEPT !.owed = FALSE]
  /\ stored' = IF quota THEN stored ELSE <<buildStateObject(doc, text)>>
  /\ ev' = [Ev("save") EXCEPT !.fails = IF quota THEN 1 ELSE 0,
                               !.alerts = IF quota THEN 1 ELSE 0,
                               !.wrote = ~quota,
                               !.kept = (stored' = stored)]
  /\ UNCHANGED <<doc, text, nextId, ls, ghosts>>

\* loadState at page load, script.js 548-552 and 939: a fresh page, so no
\* timer and no closure of the page before survives
Reload ==
  LET s == IF stored = <<>> THEN EmptyObject ELSE Parsed(stored[1])
      r == loadStateFromObject(s)
  IN  /\ doc' = r.doc
      /\ text' = r.text
      /\ deb' = [timers |-> <<>>, timeout |-> 0]
      /\ ghosts' = 0
      /\ burst' = [since |-> SaveWait, owed |-> FALSE, rearmed |-> FALSE]
      /\ ev' = [Ev("load") EXCEPT !.canv = s.canvases]
      /\ UNCHANGED <<nextId, stored, ls>>

\* load-json-button 'click' listener, script.js 697-706
Import(p) ==
  LET parseThrows == p.json = "unparseable"
      \* null.content throws; (5).content is undefined
      s == IF p.json = "object" THEN p.obj ELSE EmptyObject
      r == loadStateFromObject(s)
      ran == ~parseThrows /\ p.json # "null"
      reqs == IF ran /\ ~r.threw THEN 1 ELSE 0
  IN  /\ doc' = IF ran THEN r.doc ELSE doc
      /\ text' = IF ran THEN r.text ELSE text
      /\ ghosts' = IF ran THEN ghosts + SumDrawing(doc, Len(doc)) ELSE ghosts
      /\ Requests(reqs)
      /\ ev' = [Ev("import") EXCEPT
                  !.reqs = reqs, !.bad = Malformed(p),
                  !.same = (doc' = doc /\ text' = text),
                  !.canv = IF ran THEN s.canvases ELSE <<>>,
                  !.obj = IF ran THEN s ELSE <<>>]
      /\ UNCHANGED <<nextId, stored, ls>>

TimerFires == \E h \in Pending(deb), quota \in BOOLEAN : SaveTimerFires(h, quota)

\* copy-json-button then load-json-button, script.js 657-706: the JSON that
\* buildStateObject gives for the document is pasted and loaded
Transfer ==
  Import([json |-> "object", obj |-> Parsed(buildStateObject(doc, text))])

\* editing, gestures and the debounced save of script.js
Next ==
  \/ \E t \in Texts : Input(t)
  \/ \E i \in DOMAIN doc : RemoveWidget(i)
  \/ \E pos \in 1..MaxWidgets : CreateWidget(pos)
  \/ \E i \in DOMAIN doc, t \in Tools : SetTool(i, t)
  \/ \E i \in DOMAIN doc, x \in Xs : PointerDown(i, x)
  \/ \E i \in DOMAIN doc, x \in Xs : PointerMove(i, x)
  \/ PointerUp
  \/ \E i \in DOMAIN doc : TouchCancel(i)
  \/ \E i \in DOMAIN doc : DecodeDone(i)
  \/ Advance
  \/ TimerFires
  \/ Reload

Spec == Init /\ [][Next]_vars

\* every handler of script.js that calls saveState(), but the import
NextTriggers ==
  \/ \E t \in Texts : Input(t)
  \/ \E i \in DOMAIN doc : RemoveWidget(i)
  \/ \E pos \in 1..MaxWidgets : CreateWidget(pos)
  \/ \E i \in DOMAIN doc, x \in Xs : PointerDown(i, x)
  \/ PointerUp
  \/ \E i \in DOMAIN doc : TouchCancel(i)
  \/ Advance
  \/ TimerFires

SpecTriggers == Init /\ [][NextTriggers]_vars

\* gestures and the debounced save; time passes and a due timer runs.  A new
\* widget is inserted with the cursor at the end of the text.
NextLive ==
  \/ CreateWidget(Len(doc) + 1)
  \/ \E i \in DOMAIN doc, x \in Xs : PointerDown(i, x)
  \/ \E i \in DOMAIN doc, x \in Xs : PointerMove(i, x)
  \/ PointerUp
  \/ \E i \in DOMAIN doc : TouchCancel(i)
  \/ Advance
  \/ TimerFires

SpecLive ==
  Init /\ [][NextLive]_vars /\ WF_vars(Advance) /\ WF_vars(TimerFires)

\* page load, snapshot import and the save that follows them
NextLoad ==
  \/ \E p \in Payloads : Import(p)
  \/ Reload
  \/ \E i \in DOMAIN doc : DecodeDone(i)
  \/ CreateWidget(Len(doc) + 1)
  \/ Advance
  \/ TimerFires

SpecLoad == Init /\ [][NextLoad]_vars

\* editing, drawing, and the transfer of the document through its JSON
NextTransfer ==
  \/ \E t \in Texts : Input(t)
  \/ \E pos \in 1..MaxWidgets : CreateWidget(pos)
  \/ \E i \in DOMAIN doc, x \in Xs : PointerDown(i, x)
  \/ PointerUp
  \/ (ghosts + SumDrawing(doc, Len(doc)) <= MaxDepth /\ Transfer)
  \/ \E i \in DOMAIN doc : DecodeDone(i)
  \/ Advance
  \/ TimerFires

SpecTransfer == Init /\ [][NextTransfer]_vars

\* pointer events on and off the ink canvas, while Idle and while Drawing,
\* with the pencil; the save they request is followed in SpecTriggers
NextPointer ==
  \/ \E t \in Texts : Input(t)
  \/ \E pos \in 1..MaxWidgets : CreateWidget(pos)
  \/ \E i \in DOMAIN doc : RemoveWidget(i)
  \/ \E i \in DOMAIN doc, x \in Xs : PointerDown(i, x)
  \/ \E i \in DOMAIN doc : PointerDownElsewhere(i)
  \/ \E i \in DOMAIN doc, x \in Xs : PointerMove(i, x)
  \/ \E i \in DOMAIN doc, x \in Xs : PointerMoveIdle(i, x)
  \/ \E i \in DOMAIN doc, device \in {"mouse", "touch"} :
       PointerMoveOutside(i, device)
  \/ PointerUp
  \/ PointerUpIdle
  \/ \E i \in DOMAIN doc : TouchCancel(i)

SpecPointer == Init /\ [][NextPointer]_vars

\* the canvases of widgets that are created, loaded from pasted snapshots,
\* restored and drawn on
NextSurface ==
  \/ \E pos \in 1..MaxWidgets : CreateWidget(pos)
  \/ \E i \in DOMAIN doc, x \in Xs : PointerDown(i, x)
  \/ PointerUp
  \/ \E p \in Payloads :
       (ghosts + SumDrawing(doc, Len(doc)) <= MaxDepth /\ Import(p))
  \/ \E i \in DOMAIN doc : DecodeDone(i)

SpecSurface == Init /\ [][NextSurface]_vars

\* the tool buttons of widgets that are created, removed and loaded from
\* pasted snapshots
NextTools ==
  \/ \E pos \in 1..MaxWidgets : CreateWidget(pos)
  \/ \E i \in DOMAIN doc : RemoveWidget(i)
  \/ \E i \in DOMAIN doc, t \in Tools : SetTool(i, t)
  \/ \E p \in Payloads : Import(p)

SpecTools == Init /\ [][NextTools]_vars

\* copy-json-button 'click' listener, script.js 658-693: the snapshot is
\* built (the canvases are read) and handed to the clipboard or the paste box
CopyJson ==
  /\ ev' = Ev("export")
  /\ UNCHANGED <<doc, text, nextId, stored, ls, deb, ghosts, burst>>

\* the snapshots of Payloads that hold one complete widget and an image for
\* its ink
InkPayloads ==
  {p \in Payloads : /\ p.json = "object"
                    /\ p.obj.content = OneWidget
                    /\ ImportIdA \in DOMAIN p.obj.canvases}

\* everything that happens to a widget after its creation: gestures of the
\* three tools, tool selection, ink import, save and snapshot export
NextLines ==
  \/ \E pos \in 1..MaxWidgets : CreateWidget(pos)
  \/ \E i \in DOMAIN doc, t \in Tools : SetTool(i, t)
  \/ \E i \in DOMAIN doc, x \in Xs : PointerDown(i, x)
  \/ \E i \in DOMAIN doc, x \in Xs : PointerMove(i, x)
  \/ PointerUp
  \/ \E p \in InkPayloads :
       (ghosts + SumDrawing(doc, Len(doc)) <= MaxDepth /\ Import(p))
  \/ \E i \in DOMAIN doc : DecodeDone(i)
  \/ Advance
  \/ TimerFires
  \/ CopyJson

SpecLines == Init /\ [][NextLines]_vars

\* the handlers that run on the widget of an imported snapshot, the user
\* drawing with one pointer: no second pointer-down during a gesture
NextLayer ==
  \/ \E i \in DOMAIN doc, t \in Tools : SetTool(i, t)
  \/ \E i \in DOMAIN doc, x \in Xs : (~Drawing(doc[i]) /\ PointerDown(i, x))
  \/ \E i \in DOMAIN doc, x \in Xs : PointerMove(i, x)
  \/ PointerUp
  \/ \E p \in InkPayloads :
       (ghosts + SumDrawing(doc, Len(doc)) = 0 /\ Import(p))
  \/ \E i \in DOMAIN doc : DecodeDone(i)
  \/ Advance
  \/ TimerFires
  \/ CopyJson

SpecLayer == Init /\ [][NextLayer]_vars

\* snapshots whose string for the first widget does not decode
BadInkPayloads ==
  {[json |-> "object",
    obj |-> Snapshot(TRUE, OneWidget, TRUE, (ImportIdA :> BadImage))],
   [json |-> "object", obj |-> Snapshot(TRUE, TwoWidgets, TRUE, BadInkOfA)]}

\* drawing while the decodes of an import, some of them failing, are pending
NextDecode ==
  \/ \E i \in DOMAIN doc, x \in Xs : PointerDown(i, x)
  \/ \E i \in DOMAIN doc, x \in Xs : PointerMove(i, x)
  \/ PointerUp
  \/ \E p \in BadInkPayloads :
       (ghosts + SumDrawing(doc, Len(doc)) <= MaxDepth /\ Import(p))
  \/ \E i \in DOMAIN doc : DecodeDone(i)

SpecDecode == Init /\ [][NextDecode]_vars

----------------------------------------------------------------------------
(* script.js as a whole: the file holds two DOMContentLoaded listeners, lines
   1-441 and 442-940.  Both run at page load, each with its own debounce
   closure (timeout_1: the `timeout` of the saveState of lines 61-72) and
   each registers its listeners on the same editable area; an event runs the
   listeners in the order of registration. *)

\* executedFunction of the saveState of script.js 61-72
executedFunction_1(d) ==
  LET cleared == clearTimeout(d.timers, d.timeout_1)
      h == NewHandle(cleared)
  IN  [d EXCEPT !.timers = setTimeout(cleared, h, SaveWait), !.timeout_1 = h]

\* `later` of the debounce of script.js 12-22, for the timer with handle h
later_1(d, h) ==
  [d EXCEPT !.timers = clearTimeout(clearTimeout(@, h), d.timeout_1)]

\* initializeStaffContainer, script.js 110-183: the write and the erase
\* button only
initializeStaffContainer_1(n) ==
  IF n.shape # "ok" THEN n
  ELSE LET currentTool == IF n.tool = "" THEN "write" ELSE n.tool
       IN  [drawStaffLines(configureCanvases(n, resolutionMultiplier)) EXCEPT
              !.hs = Append(@, NewClosure),
              !.tool = currentTool,
              !.active = ActiveButtons(currentTool, {"write", "erase"})]

\* the 'dblclick' listener of script.js 243-269 alone
dblclick_1(d, pos, id) ==
  InsertAt(d, pos, initializeStaffContainer_1(
                     NodeFromMarkup(Node(id, "write", "ok"))))

\* the 'dblclick' listener of script.js 710-733 alone
dblclick_2(d, pos, id) ==
  InsertAt(d, pos, initializeStaffContainer(
                     NodeFromMarkup(Node(id, "write", "ok"))))

\* both blocks ran loadState() and found no stored snapshot
InitPage ==
  /\ doc = <<>>
  /\ text = DefaultText
  /\ nextId = 1
  /\ stored = <<>>
  /\ ls = EmptyStore(IdentityOrder)
  /\ deb = [timers |-> <<>>, timeout |-> 0, timeout_1 |-> 0]
  /\ ghosts = 0
  /\ burst = [since |-> SaveWait, owed |-> FALSE, rearmed |-> FALSE]
  /\ ev = NoEv

\* a double-click in the editable area outside every widget, the cursor at
\* position pos: the listener of lines 243-269 runs, then that of lines
\* 710-733; insertNodeAtCursor leaves the cursor after the node it inserted
DblClick(pos) ==
  /\ nextId + 1 <= MaxIds
  /\ pos \in 1..(Len(doc) + 1)
  /\ doc' = dblclick_2(dblclick_1(doc, pos, nextId), pos + 1, nextId + 1)
  /\ nextId' = nextId + 2
  /\ deb' = executedFunction(executedFunction_1(deb))
  /\ burst' = Triggered(1)
  /\ ev' = [Ev("dblclick") EXCEPT !.w = pos, !.reqs = 2,
                                   !.n = Len(doc') - Len(doc)]
  /\ UNCHANGED <<text, stored, ls, ghosts>>

\* a double-click inside widget i: both listeners return at their first line
DblClickInside(i) ==
  /\ i \in DOMAIN doc
  /\ ev' = [Ev("dblclickIn") EXCEPT !.w = i]
  /\ UNCHANGED <<doc, text, nextId, stored, ls, deb, ghosts, burst>>

\* the 'input' listeners of script.js 272-277 and 736-741
InputPage(t) ==
  /\ t # text
  /\ text' = t
  /\ deb' = executedFunction(executedFunction_1(deb))
  /\ burst' = Triggered(1)
  /\ ev' = [Ev("input") EXCEPT !.reqs = 2]
  /\ UNCHANGED <<doc, nextId, stored, ls, ghosts>>

\* the user deletes widget i from the text; both 'input' listeners run
RemoveWidgetPage(i) ==
  /\ i \in DOMAIN doc
  /\ doc' = RemoveAt(doc, i)
  /\ deb' = executedFunction(executedFunction_1(deb))
  /\ burst' = Triggered(1)
  /\ ev' = [Ev("remove") EXCEPT !.reqs = 2]
  /\ UNCHANGED <<text, nextId, stored, ls, ghosts>>

\* the timer of the saveState of script.js 61-72 fires
SaveTimerFires_1(h, quota) ==
  /\ h \in Pending(deb)
  /\ deb.timers[h] = 0
  /\ deb' = later_1(deb, h)
  /\ burst' = [burst EXCEPT !.owed = FALSE]
  /\ stored' = IF quota THEN stored ELSE <<buildStateObject(doc, text)>>
  /\ ev' = [Ev("save") EXCEPT !.fails = IF quota THEN 1 ELSE 0,
                               !.alerts = IF quota THEN 1 ELSE 0,
                               !.wrote = ~quota,
                               !.kept = (stored' = stored)]
  /\ UNCHANGED <<doc, text, nextId, ls, ghosts>>

NextPage ==
  \/ \E pos \in 1..(MaxWidgets + 1) : DblClick(pos)
  \/ \E i \in DOMAIN doc : DblClickInside(i)
  \/ \E t \in Texts : InputPage(t)
  \/ \E i \in DOMAIN doc : RemoveWidgetPage(i)
  \/ Advance
  \/ \E quota \in BOOLEAN : SaveTimerFires_1(deb.timeout_1, quota)
  \/ \E quota \in BOOLEAN : SaveTimerFires(deb.timeout, quota)

SpecPage == InitPage /\ [][NextPage]_vars

\* padding-left and padding-right of #editable-area, part_001 15
editablePadding == 15

\* availableWidth, script.js 578-579
availableWidth(clientWidth) == clientWidth - (editablePadding + editablePadding)

\* a fallback that is taken below 100 only
finalDisplayWidth_below(avail) == IF avail >= 100 THEN avail ELSE 400

\* finalDisplayWidth, script.js 581
finalDisplayWidth(avail) == IF avail > 100 THEN avail ELSE 400

\* the dblclick listener's initializeStaffContainer, script.js 729, in an
\* editable area of client width cw: the sizes it gives the two canvases.
\* The ink raster stays the row of columns 0..MaxX.
InitializeAtWidth(cw) ==
  LET n == initializeStaffContainer(NodeFromMarkup(Node(1, "write", "ok")))
  IN  /\ doc' = <<drawStaffLines(
                  [n EXCEPT !.layers =
                     Layers(finalDisplayWidth(availableWidth(cw)),
                            resolutionMultiplier)])>>
      /\ ev' = [Ev("sized") EXCEPT !.cw = cw]
      /\ UNCHANGED <<text, nextId, stored, ls, deb, ghosts, burst>>

\* initialize in editable areas of every width from hidden to wide
NextWidth == \E cw \in 0..MaxClient : InitializeAtWidth(cw)

SpecWidth == Init /\ [][NextWidth]_vars

----------------------------------------------------------------------------
(* Claims *)

\* C1 as stated: for one debounced saveState, a burst of triggers each less
\* than 1000 ms after the one before produces exactly one store write, 1000 ms
\* after the last trigger, and never more than one write is pending: at most
\* one timer is pending, one is pending exactly when a trigger has not been
\* followed by a run yet, it is due 1000 ms after the last trigger, and the
\* run happens only 1000 ms after the last trigger, leaves nothing pending
\* and writes the store.
C1_OneWritePerBurst ==
  /\ Cardinality(Pending(deb)) <= 1
  /\ burst.owed <=> Pending(deb) # {}
  /\ \A h \in Pending(deb) : deb.timers[h] = SaveWait - burst.since
  /\ ev.kind = "save" =>
       burst.since = SaveWait /\ Pending(deb) = {} /\ ev.wrote

\* C1 amended: the burst produces exactly one run of the debounced save,
\* 1000 ms after its last trigger, with never more than one run pending; the
\* run writes the store once unless setItem throws, and then the store is as
\* it was.
C1_OneRunPerBurst ==
  /\ Cardinality(Pending(deb)) <= 1
  /\ burst.owed <=> Pending(deb) # {}
  /\ \A h \in Pending(deb) : deb.timers[h] = SaveWait - burst.since
  /\ ev.kind = "save" =>
       /\ burst.since = SaveWait /\ Pending(deb) = {}
       /\ ev.wrote \/ (ev.fails = 1 /\ ev.kept)

\* a run of the save that ends a burst in which a trigger re-armed the timer
C1_Witness == ev.kind = "save" /\ ev.wrote /\ burst.rearmed

\* C3: no store write happens while a widget is Drawing.
C3_NoWriteWhileDrawing ==
  (ev.kind = "save" /\ ev.wrote) => \A i \in DOMAIN doc : ~Drawing(doc[i])

OpOf(tool) == IF tool = "write" THEN "pencil" ELSE tool

\* C5: every pointer-move of a gesture edits the ink in the mode of the tool
\* that was selected at its pointer-down.
C5_ModeFixedAtPointerDown ==
  ev.kind = "move" => ev.op = OpOf(ev.downTool)

GestureEnded == ev.kind \in {"up", "cancel"} /\ ev.n > 0

Rearmed == ev.reqs > 0 /\ burst.rearmed

\* C4 as stated: after every gesture end a store write holding the document
\* as drawn eventually occurs, unless triggers keep re-arming the timer.
C4_WriteAfterGesture ==
  []<>Rearmed \/ [](GestureEnded => <>(ev.kind = "save" /\ ev.wrote))

\* the debounced function ran: it wrote the snapshot of the document as it
\* is, ink included, or setItem threw and the store is as it was
SaveRan ==
  /\ ev.kind = "save"
  /\ ev.wrote => stored = <<buildStateObject(doc, text)>>
  /\ ~ev.wrote => ev.kept /\ ev.fails = 1

\* C4 amended: after every gesture end the debounced save eventually runs,
\* unless triggers keep re-arming the timer; it writes the snapshot of the
\* document as it then is unless setItem throws.
C4_SaveRunsAfterGesture ==
  []<>Rearmed \/ [](GestureEnded => <>SaveRan)

\* a save that wrote right after a gesture's end was followed by 1000 ms
C4_Witness ==
  /\ ev.kind = "save" /\ ev.wrote
  /\ \E i \in DOMAIN doc : doc[i].ink # Blank /\ ~Drawing(doc[i])

\* C7: an import whose input is not a well-formed snapshot leaves the
\* document, the ink and the store as they were and requests no save.
C7_MalformedImportRejected ==
  (ev.kind = "import" /\ ev.bad) => (ev.same /\ ev.reqs = 0)

\* C8: after a load or an import, a widget with missing sub-elements is left
\* uninitialised in place, and every well-formed widget is initialised and
\* has the decode of its stored ink requested.
C8_OtherWidgetsRestored ==
  ev.kind \in {"import", "load"} =>
    \A i \in DOMAIN doc :
      IF doc[i].shape = "ok"
      THEN /\ doc[i].hs # <<>>
           /\ doc[i].id \in DOMAIN ev.canv => doc[i].imgs # <<>>
      ELSE doc[i].hs = <<>>

----------------------------------------------------------------------------
(* Handlers of part_000 *)

InitP0 ==
  /\ doc = <<>>
  /\ text = DefaultText
  /\ nextId = 1
  /\ stored = <<>>
  /\ ls \in {EmptyStore(o) : o \in KeyOrders}
  /\ deb = [timers |-> <<>>, timeout |-> 0]
  /\ ghosts = 0
  /\ burst = [since |-> SaveWait, owed |-> FALSE, rearmed |-> FALSE]
  /\ ev = NoEv

\* 'dblclick' listener, part_000 207-242
CreateWidget_p0(pos, limit) ==
  /\ nextId <= MaxIds
  /\ Len(doc) < limit
  /\ pos \in 1..(Len(doc) + 1)
  /\ doc' = InsertAt(doc, pos, initializeStaffContainer_p0(
               NodeFromMarkup(Node(nextId, "write", "ok")), ls))
  /\ nextId' = nextId + 1
  /\ Requests(1)
  /\ ev' = [Ev("create") EXCEPT !.reqs = 1, !.w = pos]
  /\ UNCHANGED <<text, stored, ls, ghosts>>

\* tool-buttons 'click' listener, part_000 183-191
SetTool_p0(i, t) ==
  /\ t \in {"write", "erase"}
  /\ SetTool(i, t)

\* mousedown / touchstart on the ink canvas of widget i
PointerDown_p0(i, x) ==
  /\ i \in DOMAIN doc
  /\ HasFg(doc[i]) /\ doc[i].hs # <<>>
  /\ Len(doc[i].ctx.stack) < MaxDepth
  /\ doc' = [doc EXCEPT ![i] = startAll_p0(@, 1, x)]
  /\ ev' = [Ev("down") EXCEPT !.w = i, !.n = Len(doc[i].hs),
                               !.downTool = doc[i].tool]
  /\ UNCHANGED <<text, nextId, stored, ls, deb, ghosts, burst>>

\* mousemove / touchmove delivered to the ink canvas of widget i
PointerMove_p0(i, x) ==
  /\ i \in DOMAIN doc
  /\ Drawing(doc[i])
  /\ doc' = [doc EXCEPT ![i] = drawAll_p0(@, 1, x)]
  /\ ev' = [Ev("move") EXCEPT
              !.w = i, !.n = DrawingCount(doc[i]), !.op = StrokeOp(doc[i])]
  /\ UNCHANGED <<text, nextId, stored, ls, deb, ghosts, burst>>

\* the debounced 'resize' listener runs, part_000 396-406
Resize_p0 ==
  /\ doc # <<>>
  /\ \A i \in DOMAIN doc : Len(doc[i].hs) < MaxInits
  /\ doc' = [i \in DOMAIN doc |-> initializeStaffContainer_p0(doc[i], ls)]
  /\ ev' = [Ev("resize") EXCEPT !.pre = Pre(doc)]
  /\ UNCHANGED <<text, nextId, stored, ls, deb, ghosts, burst>>

\* the timer of saveState fires, part_000 33-80
SaveTimerFires_p0(h, failContent, failInk) ==
  /\ h \in Pending(deb)
  /\ deb.timers[h] = 0
  /\ deb' = later(deb, h)
  /\ burst' = [burst EXCEPT !.owed = FALSE]
  /\ LET r == saveState_p0(ls, doc, text, failContent, failInk)
     IN  /\ ls' = r.ls
         /\ ev' = [Ev("save") EXCEPT !.fails = r.fails, !.alerts = r.alerts,
                                      !.wrote = ~failContent,
                                      !.kept = (r.ls = ls)]
  /\ UNCHANGED <<doc, text, nextId, stored, ghosts>>

TimerFires_p0 ==
  \E h \in Pending(deb), failContent \in BOOLEAN :
    \E failInk \in SUBSET {doc[i].id : i \in DOMAIN doc} :
      SaveTimerFires_p0(h, failContent, failInk)

\* loadState at page load, part_000 410
Reload_p0 ==
  LET r == loadState_p0(ls)
  IN  /\ doc' = r.doc
      /\ text' = r.text
      /\ deb' = [timers |-> <<>>, timeout |-> 0]
      /\ ghosts' = 0
      /\ burst' = [since |-> SaveWait, owed |-> FALSE, rearmed |-> FALSE]
      /\ ev' = [Ev("load") EXCEPT !.canv = ls.inks]
      /\ UNCHANGED <<nextId, stored, ls>>

\* part_000: editing and the save into per-widget keys
NextP0 ==
  \/ \E t \in Texts : Input(t)
  \/ \E i \in DOMAIN doc : RemoveWidget(i)
  \/ \E pos \in 1..MaxStaves : CreateWidget_p0(pos, MaxStaves)
  \/ Advance
  \/ TimerFires_p0
  \/ Reload_p0
  \/ \E i \in DOMAIN doc : DecodeDone(i)

SpecP0 == InitP0 /\ [][NextP0]_vars

\* part_000: gestures and re-initialisation on resize
NextP0Resize ==
  \/ \E pos \in 1..MaxWidgets : CreateWidget_p0(pos, MaxWidgets)
  \/ \E i \in DOMAIN doc, t \in Tools : SetTool_p0(i, t)
  \/ \E i \in DOMAIN doc, x \in Xs : PointerDown_p0(i, x)
  \/ \E i \in DOMAIN doc, x \in Xs : PointerMove_p0(i, x)
  \/ PointerUp
  \/ \E i \in DOMAIN doc : TouchCancel(i)
  \/ Resize_p0
  \/ \E i \in DOMAIN doc : DecodeDone(i)
  \/ Advance
  \/ TimerFires_p0

SpecP0Resize == Init /\ [][NextP0Resize]_vars

\* C2: right after a save that completed, the ink entries of the store are
\* exactly those of the ids of the widgets in the document.
C2_InkKeysAreWidgetIds ==
  (ev.kind = "save" /\ ev.wrote /\ ev.fails = 0) =>
    DOMAIN ls.inks = {doc[i].id : i \in DOMAIN doc}

\* the ink of widget n once its pending decodes have run
RECURSIVE AfterDecodes(_)
AfterDecodes(n) ==
  IF n.imgs = <<>> THEN n.ink
  ELSE LET img == Head(n.imgs)
           n1 == [n EXCEPT !.imgs = Tail(@)]
       IN  AfterDecodes(IF img.ok THEN drawImage(n1, img) ELSE onerror(n1, img))

\* C34: re-initialising the widgets on window resize never loses a completed
\* stroke: the ink a widget with no gesture in progress held when the resize
\* handler ran is the ink of its layer once the handler and the pending
\* decodes have run, also when the debounced save has not fired yet.
C34_ResizeKeepsInk ==
  ev.kind = "resize" =>
    \A i \in DOMAIN doc :
      (doc[i].shape = "ok" /\ ~ev.pre[i].drawing) =>
        AfterDecodes(doc[i]) = ev.pre[i].ink

\* C6: however often a widget was initialised, one set of gesture handlers
\* is active: a pointer-down starts one stroke, a pointer-move extends it
\* once, a pointer-up issues one save request.
C6_OneHandlerSet ==
  /\ ev.kind \in {"down", "move"} => ev.n = 1
  /\ ev.kind \in {"up", "cancel"} => ev.reqs = 1

\* C9: when a store write of a save fails, the store holds exactly what it
\* held before that save.
C9_FailedSaveKeepsStore ==
  (ev.kind = "save" /\ ev.fails > 0) => ev.kept

\* C10: a save in which a store write fails with a quota error shows the
\* user exactly one notice.
C10_OneNoticePerFailedSave ==
  (ev.kind = "save" /\ ev.fails > 0) => ev.alerts = 1

----------------------------------------------------------------------------
(* Claims on export failure, import and load *)

\* C11: when the export of a widget's ink fails during a save, the save still
\* writes the markup and the ink of every other widget, and has no entry for
\* the widget whose export failed.
C11_ExportFailureSkipsOneWidget ==
  (/\ ev.kind = "save" /\ ev.wrote
   /\ \E i \in DOMAIN doc : HasFg(doc[i]) /\ doc[i].tainted) =>
    /\ stored[1].content = Markup(doc, text)
    /\ \A i \in DOMAIN doc : CanExport(doc[i]) =>
         /\ doc[i].id \in DOMAIN stored[1].canvases
         /\ stored[1].canvases[doc[i].id] = toDataURL(doc[i].ink)
    /\ \A id \in DOMAIN stored[1].canvases :
         \E i \in DOMAIN doc : doc[i].id = id /\ CanExport(doc[i])

\* a save wrote while one widget could not be exported and another had ink
C11_Witness ==
  /\ ev.kind = "save" /\ ev.wrote
  /\ \E i, j \in DOMAIN doc :
       /\ HasFg(doc[i]) /\ doc[i].tainted
       /\ CanExport(doc[j]) /\ doc[j].ink # Blank

\* C36: once no save timer is pending and no gesture is in progress, the
\* markup held in the store is the markup of the document, each widget's
\* current tool selection included.
C36_StoreFollowsDocument ==
  (Pending(deb) = {} /\ ghosts + SumDrawing(doc, Len(doc)) = 0
     /\ stored # <<>>) =>
    stored[1].content = Markup(doc, text)

\* C12: the snapshot a save writes after an import holds, for every imported
\* widget that had an ink entry, that same ink, in whatever order the decodes
\* and the save timer complete: an entry whose decode is still pending when
\* the save writes is in the snapshot written.
C12_ImportedInkSaved ==
  (ev.kind = "save" /\ ev.wrote) =>
    \A i \in DOMAIN doc : \A k \in DOMAIN doc[i].imgs :
      (doc[i].imgs[k].ok /\ ~doc[i].imgs[k].foreign /\ CanExport(doc[i])) =>
        /\ doc[i].id \in DOMAIN stored[1].canvases
        /\ stored[1].canvases[doc[i].id] = doc[i].imgs[k]

C14_LoadWithoutSnapshot ==
  (ev.kind = "load" /\ stored = <<>>) =>
    doc = <<>> /\ text = DefaultText /\ ev.reqs = 0 /\ Pending(deb) = {}

\* a page that had created a widget was loaded again before any save wrote
C14_Witness == ev.kind = "load" /\ stored = <<>> /\ nextId > 1

\* the import reached loadStateFromObject
Ran == "content" \in DOMAIN ev.obj

\* the snapshot without the canvases keys that match no widget of its markup
Stripped(s) ==
  LET ids == {s.content.nodes[i].id : i \in DOMAIN s.content.nodes}
  IN  [s EXCEPT !.canvases = [id \in DOMAIN s.canvases \cap ids |->
                                s.canvases[id]]]

\* C15: an import whose canvases mapping has a key that matches no widget of
\* the imported markup leaves exactly what the import of the same snapshot
\* without that key leaves, and raises no error of its own.
C15_UnknownKeyIgnored ==
  (ev.kind = "import" /\ Ran) =>
    LET r == loadStateFromObject(Stripped(ev.obj))
    IN  /\ doc = r.doc /\ text = r.text
        /\ ev.reqs = IF r.threw THEN 0 ELSE 1

\* an import with a canvases key that no widget of its markup has
C15_Witness ==
  /\ ev.kind = "import" /\ Ran /\ doc # <<>> /\ ev.reqs = 1
  /\ \E id \in DOMAIN ev.obj.canvases :
       \A i \in DOMAIN doc : doc[i].id # id

\* C16: importing the JSON exported from a document reproduces it: the same
\* markup (text, widget ids in order, tool selections) and for each widget
\* the decode of its exported ink entry requested.
C16_ExportImportRoundTrip ==
  ev.kind = "import" =>
    /\ Ran
    /\ Markup(doc, text) = ev.obj.content
    /\ \A i \in DOMAIN doc :
         doc[i].id \in DOMAIN ev.obj.canvases =>
           doc[i].imgs = <<ev.obj.canvases[doc[i].id]>>

\* C21: in every reachable state no two widgets of the document have the same
\* id.
C21_WidgetIdsUnique ==
  \A i, j \in DOMAIN doc : doc[i].id = doc[j].id => i = j

\* a widget initializeStaffContainer ran through for
Initialised(n) == n.shape = "ok" /\ n.hs # <<>>

\* C29: after initialize and after every tool-button click, exactly one of the
\* widget's tool buttons is marked active and it is the button of the
\* widget's current tool; a widget with no stored tool is given pencil.
C29_OneActiveButton ==
  /\ \A i \in DOMAIN doc :
       Initialised(doc[i]) =>
         doc[i].tool \in Tools /\ doc[i].active = {doc[i].tool}
  /\ (ev.kind = "import" /\ "content" \in DOMAIN ev.obj) =>
       \A i \in DOMAIN doc \cap DOMAIN ev.obj.content.nodes :
         (Initialised(doc[i]) /\ ev.obj.content.nodes[i].tool = "") =>
           doc[i].tool = "write"

\* both layers have the backing size logical size times m, and the transform
\* of each is the uniform scale by m
Configured(n, m) ==
  /\ n.layers.bg = n.layers.fg
  /\ n.layers.fg[1] = n.layers.style[1] * m
  /\ n.layers.fg[2] = n.layers.style[2] * m
  /\ n.layers.bgtf = m /\ n.ctx.tf = m

\* C30: after every initialize, the lines layer and the ink layer have the
\* same backing size, equal to logical size times the multiplier, and each
\* layer's drawing transform is exactly a uniform scale by the multiplier
\* (not compounded by repeated initialization); an ink import leaves the ink
\* layer's transform at that same scale.  Stated of every initialised widget
\* in every state, that of a finished import included, and of what another
\* initialize would make of the widget.
C30_LayersConfigured ==
  \A i \in DOMAIN doc :
    Initialised(doc[i]) =>
      /\ Configured(doc[i], resolutionMultiplier)
      /\ Configured(initializeStaffContainer(doc[i]), resolutionMultiplier)

\* the ink of an initialised widget was restored from its imported entry,
\* while a gesture on it was in progress
C30_Witness ==
  /\ ev.kind = "decode" /\ ev.img.ok
  /\ Initialised(doc[ev.w]) /\ doc[ev.w].ink # Blank
  /\ doc[ev.w].ctx.stack # <<>>
  /\ doc[ev.w].ctx.tf = resolutionMultiplier

\* C31: initialize sets the widget's logical width to the available container
\* width when that width is greater than 100 and to 400 otherwise, and always
\* sets the logical height to 64.
C31_LogicalSize ==
  ev.kind = "sized" =>
    LET avail == availableWidth(ev.cw)
    IN  /\ doc[1].layers.style[1] = IF avail > 100 THEN avail ELSE 400
        /\ doc[1].layers.style[2] = 64

\* the available width was exactly 100 and the widget is 400 wide
C31_Witness ==
  /\ ev.kind = "sized" /\ availableWidth(ev.cw) = 100
  /\ doc[1].layers.style = <<400, 64>>

\* C32: the lines layer is changed only by initialize: gestures (pencil,
\* erase, note stamp), ink import, tool selection, save and snapshot export
\* never modify it.
C32_LinesOnlyByInitialize ==
  [][ev'.kind \in {"down", "move", "up", "decode", "tool", "save", "tick",
                   "export"} =>
       /\ Len(doc') = Len(doc)
       /\ \A i \in DOMAIN doc :
            /\ doc'[i].id = doc[i].id
            /\ doc'[i].layers = doc[i].layers]_vars

\* an imported image was drawn onto the ink of a widget whose lines canvas
\* shows the staff
C32_Witness ==
  /\ ev.kind = "decode" /\ ev.img.ok
  /\ doc[ev.w].ink # Blank
  /\ doc[ev.w].layers.lines = displayHeight

\* C33: if decoding a stored ink string fails, the widget's ink layer is left
\* exactly as it was when the import was requested, no other widget's ink or
\* state is affected, and the restoration of the remaining widgets continues:
\* the step of a failed decode changes nothing but the widget's list of
\* pending decodes, so the decodes of the other widgets stay pending and the
\* ink they restored stays.
C33_DecodeFailureIsLocal ==
  [][(ev'.kind = "decode" /\ ~ev'.img.ok) =>
       /\ Len(doc') = Len(doc)
       /\ \A i \in DOMAIN doc :
            doc'[i] = IF i = ev'.w THEN [doc[i] EXCEPT !.imgs = Tail(@)]
                      ELSE doc[i]
       /\ UNCHANGED <<text, stored, ls, deb>>]_vars

\* the decode for the first widget failed after the user drew on it; the ink
\* of the second widget is restored
C33_Witness ==
  /\ ev.kind = "decode" /\ ~ev.img.ok /\ ev.w = 1
  /\ Len(doc) = 2
  /\ doc[1].ink # Blank
  /\ doc[2].ink # Blank /\ doc[2].imgs = <<>>

\* C37: a gesture on one widget never changes another widget's ink, tool
\* selection or gesture state: a pointer-down or pointer-move on a widget
\* leaves every other widget as it was, and a pointer-up ends the gesture of
\* one widget at most.
C37_GesturesAreLocal ==
  [][/\ ev'.kind \in {"down", "move"} =>
          \A j \in DOMAIN doc : j # ev'.w => doc'[j] = doc[j]
     /\ ev'.kind = "up" =>
          Cardinality({i \in DOMAIN doc :
                         Drawing(doc[i]) /\ ~Drawing(doc'[i])}) <= 1]_vars

\* C38: with script.js loaded as written, a double-click in the editable area
\* outside every widget creates exactly one widget, with a fresh id and the
\* pencil tool, and issues one save request; a double-click inside a widget
\* creates none.
C38_DblClickCreatesOne ==
  /\ ev.kind = "dblclick" =>
       /\ ev.n = 1 /\ ev.reqs = 1
       /\ doc[ev.w].tool = "write"
       /\ \A j \in DOMAIN doc : j # ev.w => doc[j].id # doc[ev.w].id
  /\ ev.kind = "dblclickIn" => (ev.n = 0 /\ ev.reqs = 0)

----------------------------------------------------------------------------
(* Staff geometry, script.js 762-794.  Numbers are exact fractions n / d
   with d > 0. *)

Rat(n, d) == [n |-> n, d |-> d]
FromInt(i) == Rat(i, 1)
RAdd(a, b) == Rat(a.n * b.d + b.n * a.d, a.d * b.d)
RSub(a, b) == Rat(a.n * b.d - b.n * a.d, a.d * b.d)
RMul(a, b) == Rat(a.n * b.n, a.d * b.d)
RDiv(a, b) ==
  IF b.n > 0 THEN Rat(a.n * b.d, a.d * b.n) ELSE Rat(-(a.n * b.d), -(a.d * b.n))
REq(a, b) == a.n * b.d = b.n * a.d
RLess(a, b) == a.n * b.d < b.n * a.d

\* a Math.round that returns its argument
MathRound_none(r) == {r}

\* Math.round: floor(r + 1/2).  The argument is a double: when the exact
\* value is half-way between two integers, the rounding error of the
\* division and the product before it decides on which side the double lies
MathRound(r) ==
  LET up == (2 * r.n + r.d) \div (2 * r.d)
  IN  IF (2 * r.n + r.d) % (2 * r.d) = 0
      THEN {FromInt(up), FromInt(up - 1)} ELSE {FromInt(up)}

\* a line spacing with the divisor of part_000: numLines + ledgerSpace - 1
getLineSpacing_minusOne(h) ==
  RDiv(FromInt(h), FromInt(numStaffLines + staffLedgerSpace - 1))

\* a line spacing that leaves the ledger space out of the divisor
getLineSpacing_noLedger(h) == RDiv(FromInt(h), FromInt(numStaffLines))

\* getLineSpacing, script.js 762-765, for a canvas of display height h
getLineSpacing(h) ==
  RDiv(FromInt(h), FromInt(numStaffLines + staffLedgerSpace))

\* getStaffLineNumber, script.js 767-770
getStaffLineNumber(y, lineSpacing) ==
  {RMul(Rat(1, 2), k) :
     k \in MathRound(RMul(FromInt(2),
                          RSub(RDiv(y, lineSpacing),
                               Rat(staffLedgerSpace, 2))))}

\* a line-to-y mapping without the ledger offset
getYForStaffLineNumber_noOffset(staffLineNumber, lineSpacing) ==
  MathRound(RMul(lineSpacing, staffLineNumber))

\* getYForStaffLineNumber, script.js 772-774
getYForStaffLineNumber(staffLineNumber, lineSpacing) ==
  MathRound(RMul(lineSpacing,
                 RAdd(staffLineNumber, Rat(staffLedgerSpace, 2))))

Heights == 1..MaxHeight

\* pointer y on a canvas of height h, in half units, a little past its edges
Ys(h) == {Rat(n, 2) : n \in (-2)..(2 * h + 2)}

\* the inputs of the staff geometry: a display height, a pointer y, a line
InitStaff ==
  /\ doc = <<>>
  /\ text = DefaultText
  /\ nextId = 1
  /\ stored = <<>>
  /\ ls = EmptyStore(IdentityOrder)
  /\ deb = [timers |-> <<>>, timeout |-> 0]
  /\ ghosts = 0
  /\ burst = [since |-> SaveWait, owed |-> FALSE, rearmed |-> FALSE]
  /\ \E h \in Heights, line \in 0..(numStaffLines - 1) : \E y \in Ys(h) :
       ev = [NoEv EXCEPT !.h = h, !.line = line, !.y = y]

\* the loop of drawStaffLines, script.js 786-792, on a canvas of height ev.h
DrawStaffLines ==
  /\ ev.kind = "init"
  /\ \E y0 \in getYForStaffLineNumber(FromInt(0), getLineSpacing(ev.h)),
        y1 \in getYForStaffLineNumber(FromInt(1), getLineSpacing(ev.h)),
        y2 \in getYForStaffLineNumber(FromInt(2), getLineSpacing(ev.h)),
        y3 \in getYForStaffLineNumber(FromInt(3), getLineSpacing(ev.h)),
        y4 \in getYForStaffLineNumber(FromInt(4), getLineSpacing(ev.h)) :
       ev' = [ev EXCEPT !.kind = "lines", !.ys = <<y0, y1, y2, y3, y4>>]
  /\ UNCHANGED <<doc, text, nextId, stored, ls, deb, ghosts, burst>>

\* getStaffLineNumber applied to the pointer y, as drawNotehead does
SnapY ==
  /\ ev.kind = "init"
  /\ \E r \in getStaffLineNumber(ev.y, getLineSpacing(ev.h)) :
       ev' = [ev EXCEPT !.kind = "snap", !.snap = r]
  /\ UNCHANGED <<doc, text, nextId, stored, ls, deb, ghosts, burst>>

\* getStaffLineNumber applied to the y of the staff line ev.line
RoundTrip ==
  /\ ev.kind = "init"
  /\ \E y \in getYForStaffLineNumber(FromInt(ev.line), getLineSpacing(ev.h)) :
       \E r \in getStaffLineNumber(y, getLineSpacing(ev.h)) :
         ev' = [ev EXCEPT !.kind = "roundtrip", !.y = y, !.snap = r]
  /\ UNCHANGED <<doc, text, nextId, stored, ls, deb, ghosts, burst>>

NextStaff == DrawStaffLines \/ SnapY \/ RoundTrip

SpecStaff == InitStaff /\ [][NextStaff]_vars

\* C17 as stated: for every height and every line 0..4, the line number of
\* the y of the line is the line.
C17_SnapInvertsLineY ==
  ev.kind = "roundtrip" => REq(ev.snap, FromInt(ev.line))

\* C17 amended: the same, for every integer height from 17 on.
C17_SnapInvertsLineYFrom17 ==
  (ev.kind = "roundtrip" /\ ev.h >= 17) => REq(ev.snap, FromInt(ev.line))

\* the top line of a canvas of the program's height was mapped and snapped
C17_Witness ==
  ev.kind = "roundtrip" /\ ev.h = displayHeight /\ ev.line = numStaffLines - 1

SameYs(ys, expected) ==
  /\ Len(ys) = Len(expected)
  /\ \A i \in DOMAIN ys : REq(ys[i], FromInt(expected[i]))

\* C18 as stated: at height 64 the five lines are at y = 16, 24, 32, 40, 48.
C18_LinesAt16To48 ==
  (ev.kind = "lines" /\ ev.h = 64) => SameYs(ev.ys, <<16, 24, 32, 40, 48>>)

\* C18 amended: at height 64 the five lines are at y = 14, 21, 28, 36, 43.
C18_LinesAt14To43 ==
  (ev.kind = "lines" /\ ev.h = 64) => SameYs(ev.ys, <<14, 21, 28, 36, 43>>)

\* the lines of a canvas of height 64 were computed
C18_Witness == ev.kind = "lines" /\ ev.h = 64 /\ Len(ev.ys) = numStaffLines

InRange(ys, h) ==
  \A i \in DOMAIN ys : ~RLess(ys[i], FromInt(0)) /\ ~RLess(FromInt(h), ys[i])

\* C19 as stated: for every positive integer height the five y are strictly
\* increasing and within 0..height.
C19_LinesStrictlyIncreasing ==
  ev.kind = "lines" =>
    /\ \A i \in 1..(Len(ev.ys) - 1) : RLess(ev.ys[i], ev.ys[i + 1])
    /\ InRange(ev.ys, ev.h)

\* C19 amended: for every positive integer height the five y never decrease
\* and are within 0..height; from height 9 on they are strictly increasing.
C19_LinesIncreasingFrom9 ==
  ev.kind = "lines" =>
    /\ \A i \in 1..(Len(ev.ys) - 1) : ~RLess(ev.ys[i + 1], ev.ys[i])
    /\ ev.h >= 9 =>
         \A i \in 1..(Len(ev.ys) - 1) : RLess(ev.ys[i], ev.ys[i + 1])
    /\ InRange(ev.ys, ev.h)

\* the lines of a canvas lower than 9 were computed, and two of them coincide
C19_Witness ==
  /\ ev.kind = "lines" /\ ev.h < 9
  /\ \E i \in 1..(Len(ev.ys) - 1) : REq(ev.ys[i], ev.ys[i + 1])

\* C20: the line number the snap returns is a multiple of 0.5.
C20_SnapIsHalfMultiple ==
  ev.kind = "snap" => (2 * ev.snap.n) % ev.snap.d = 0

\* a snap returned a half line above the staff's top line
C20_Witness ==
  /\ ev.kind = "snap"
  /\ ev.snap.n % ev.snap.d # 0
  /\ RLess(FromInt(numStaffLines - 1), ev.snap)

----------------------------------------------------------------------------
(* Claims on pointer events *)

C24_MoveOutsideHonoured ==
  (ev.kind = "moveOut" /\ ev.pre[ev.w].drawing) => ev.n > 0

\* C25: while a widget is Idle, a pointer-move, a pointer-up, and a
\* pointer-down whose target is not its ink canvas leave it Idle with its
\* ink unchanged, and its handlers request no save.
C25_IdleIgnoresEvents ==
  ev.kind \in {"moveIdle", "moveOut", "up", "upIdle", "downOff"} =>
    \A i \in DOMAIN ev.pre :
      ~ev.pre[i].drawing =>
        ~Drawing(doc[i]) /\ doc[i].ink = ev.pre[i].ink /\ ev.per[i] = 0

\* a pointer-move reached an Idle widget with ink, whose tool is the pencil
C25_Witness ==
  /\ ev.kind = "moveIdle"
  /\ doc[ev.w].ink # Blank /\ doc[ev.w].tool = "write"

----------------------------------------------------------------------------
(* Ink geometry of one ink canvas, script.js 796-905, along x.  The canvas
   is MaxPx logical pixels wide; positions are in columns of 1 / Sub pixel,
   so that the pencil, the eraser and the band drawNotehead clears all end
   on column boundaries.  The ink is uniform between two positions at which
   a stroke, a band or a note-head of a pointer at one of Taps can begin or
   end, and is kept per such run of columns.  The y of pencil ink is not
   kept; a note-head keeps its centre (x, y).  Antialiasing is not
   modelled. *)

MaxPx == 20      \* logical width of the ink canvas explored, in pixels
MaxNest == 2     \* pointer-downs without a pointer-up between them explored
MaxMoves == 2    \* pointer-moves of one gesture that the history follows

\* columns per pixel: 0.6 * lineSpacing = 6 * displayHeight / (10 * 9) pixels
\* is a whole number of columns
Sub == (10 * (numStaffLines + staffLedgerSpace)) \div 6

\* where the pointer goes down and moves to: two x more than two band
\* margins apart, and two y
Taps == {MaxPx \div 4, (3 * MaxPx) \div 4}
TapYs == {displayHeight \div 4, displayHeight \div 2 + 1}

\* 0.6 * lineSpacing, in columns: the horizontal radius of the ellipse and
\* the margin of the band drawNotehead clears
NoteMargin ==
  (6 * displayHeight * Sub) \div (10 * (numStaffLines + staffLedgerSpace))

\* the columns, counted from its centre, that the ellipse of semi-axes
\* 0.6 and 0.45 lineSpacing turned by -20 degrees reaches into:
\* sqrt((0.6 cos 20)^2 + (0.45 sin 20)^2) * lineSpacing = 62.3 columns
NoteReach == 63

\* half the width of a stroke of lineWidth lw, in columns, on its two sides
HalfBelow(lw) == (lw * Sub) \div 2
HalfAbove(lw) == (lw * Sub + 1) \div 2

\* the distances from the pointer at which ink can begin or end
Reaches ==
  {0, NoteMargin, NoteReach}
    \cup {HalfBelow(lw) : lw \in {1, pencilWidth, eraserWidth}}
    \cup {HalfAbove(lw) : lw \in {1, pencilWidth, eraserWidth}}

\* the first column of every run of columns
Cols ==
  {0} \cup {c \in 0..(MaxPx * Sub - 1) :
              \E x \in Taps, r \in Reaches : c = x * Sub - r \/ c = x * Sub + r}

NoInk == [k |-> "", x |-> 0, y |-> 0]
PencilInk == [k |-> "p", x |-> 0, y |-> 0]
NoteInk(x, y) == [k |-> "n", x |-> x, y |-> y]

BlankPx == [c \in Cols |-> NoInk]

\* ctx.clearRect over the columns lo .. hi - 1
clearRect(ink, lo, hi) ==
  [c \in Cols |-> IF lo <= c /\ c < hi THEN NoInk ELSE ink[c]]

\* ctx.fill / ctx.stroke over the columns lo .. hi - 1 under the context's
\* globalCompositeOperation; pencil ink over a note-head leaves the column
\* a note-head column
paintPx(ink, lo, hi, what, gco) ==
  [c \in Cols |->
     IF lo <= c /\ c < hi
     THEN IF gco = "destination-out" THEN NoInk
          ELSE IF ink[c].k = "n" /\ what.k = "p" THEN ink[c] ELSE what
     ELSE ink[c]]

\* the y drawNotehead stamps at for a pointer at y, script.js 817-819
SnappedY(y) ==
  {r.n \div r.d :
     r \in UNION {getYForStaffLineNumber(line, getLineSpacing(displayHeight)) :
                    line \in getStaffLineNumber(FromInt(y),
                                                getLineSpacing(displayHeight))}}

\* the ink canvas of a widget that was just initialised, with the closure of
\* addDrawingListeners; path: the x of the points of the current path
NewSurface ==
  [tool |-> "write", isDrawing |-> FALSE, lastX |-> 0,
   ctx |-> scale(setTransform(FreshCtx, 1), resolutionMultiplier),
   path |-> <<>>, ink |-> BlankPx]

\* drawNotehead, script.js 816-830, for a pointer at x snapped to yy
drawNotehead_px(s, x, yy) ==
  LET minX == Min(s.lastX, x) * Sub - NoteMargin
      maxX == Max(s.lastX, x) * Sub + NoteMargin
      cleared == clearRect(s.ink, minX, maxX)
  IN  [s EXCEPT !.ink = paintPx(cleared, x * Sub - NoteReach,
                                x * Sub + NoteReach, NoteInk(x, yy),
                                s.ctx.gco),
                !.path = <<x>>]

\* a startDrawing whose eraser is as thin as a hairline
startDrawing_px_thinEraser(s, x, yy) ==
  LET s1 == [s EXCEPT !.isDrawing = TRUE, !.lastX = x, !.ctx = ctxSave(@)]
      s2 == IF s.tool = "erase"
              THEN [s1 EXCEPT !.ctx.gco = "destination-out", !.ctx.lw = 1]
            ELSE IF s.tool = "write"
              THEN [s1 EXCEPT !.ctx.gco = "source-over",
                              !.ctx.lw = pencilWidth]
            ELSE IF s.tool = "note" THEN drawNotehead_px(s1, x, yy)
            ELSE s1
  IN  [s2 EXCEPT !.path = <<x>>]

\* startDrawing, script.js 832-857 (the event's target is the canvas)
startDrawing_px(s, x, yy) ==
  LET s1 == [s EXCEPT !.isDrawing = TRUE, !.lastX = x, !.ctx = ctxSave(@)]
      s2 == IF s.tool = "erase"
              THEN [s1 EXCEPT !.ctx.gco = "destination-out",
                              !.ctx.lw = eraserWidth]
            ELSE IF s.tool = "write"
              THEN [s1 EXCEPT !.ctx.gco = "source-over",
                              !.ctx.lw = pencilWidth]
            ELSE IF s.tool = "note" THEN drawNotehead_px(s1, x, yy)
            ELSE s1
  IN  [s2 EXCEPT !.path = <<x>>]

\* the columns ctx.stroke() covers: the whole current path, lineWidth wide,
\* with round caps (a path whose points coincide is taken to leave a dot)
PathLo(path) == CHOOSE a \in {path[i] : i \in DOMAIN path} :
                  \A i \in DOMAIN path : a <= path[i]
PathHi(path) == CHOOSE a \in {path[i] : i \in DOMAIN path} :
                  \A i \in DOMAIN path : a >= path[i]
StrokeLo(path, lw) == PathLo(path) * Sub - HalfBelow(lw)
StrokeHi(path, lw) == PathHi(path) * Sub + HalfAbove(lw)

\* draw, script.js 860-876 (the event's target is the canvas)
draw_px(s, x, yy) ==
  IF ~s.isDrawing THEN s
  ELSE LET m == IF s.tool = "note" THEN drawNotehead_px(s, x, yy)
                ELSE LET path == Append(s.path, x)
                     IN  [s EXCEPT !.path = path,
                                   !.ink = paintPx(s.ink,
                                             StrokeLo(path, s.ctx.lw),
                                             StrokeHi(path, s.ctx.lw),
                                             PencilInk, s.ctx.gco)]
       IN  [m EXCEPT !.lastX = x]

\* stopDrawing, script.js 878-888, without its saveState() call
stopDrawing_px(s) ==
  IF ~s.isDrawing THEN s
  ELSE [s EXCEPT !.isDrawing = FALSE, !.ctx = ctxRestore(@)]

\* one initialised widget, its ink canvas blank
InitInk ==
  /\ doc = <<NewSurface>>
  /\ text = DefaultText
  /\ nextId = 1
  /\ stored = <<>>
  /\ ls = EmptyStore(IdentityOrder)
  /\ deb = [timers |-> <<>>, timeout |-> 0]
  /\ ghosts = 0
  /\ burst = [since |-> SaveWait, owed |-> FALSE, rearmed |-> FALSE]
  /\ ev = NoEv

\* tool-buttons 'click' listener, script.js 615-625, between gestures
SetToolPx(t) ==
  /\ ~doc[1].isDrawing
  /\ t # doc[1].tool
  /\ doc' = <<[doc[1] EXCEPT !.tool = t]>>
  /\ ev' = [ev EXCEPT !.kind = "tool", !.changed = {}]
  /\ UNCHANGED <<text, nextId, stored, ls, deb, ghosts, burst>>

Changed(before, after) == {c \in Cols : before[c] # after[c]}

\* mousedown / touchstart on the ink canvas: any button, any finger, also
\* while a gesture is in progress; hist: the history keeps the gesture before
\* and whether the ink was blank.  y matters to the note tool only.
PointerDownPx(x, y, hist) ==
  /\ Len(doc[1].ctx.stack) < MaxNest
  /\ \E yy \in SnappedY(y) :
       LET s == startDrawing_px(doc[1], x, yy)
           note == doc[1].tool = "note"
       IN  /\ doc' = <<s>>
           /\ ev' = [ev EXCEPT
                       !.kind = "down", !.x = x,
                       !.py = IF note THEN y ELSE 0,
                       !.yy = IF note THEN yy ELSE 0,
                       !.changed = Changed(doc[1].ink, s.ink),
                       !.g = [tool |-> doc[1].tool, pts |-> <<x>>,
                              blank0 |-> hist /\ doc[1].ink = BlankPx,
                              nested |-> doc[1].isDrawing],
                       !.prev = IF hist THEN ev.g ELSE NoGesture]
  /\ UNCHANGED <<text, nextId, stored, ls, deb, ghosts, burst>>

\* mousemove / touchmove delivered to the ink canvas
PointerMovePx(x, y) ==
  /\ doc[1].isDrawing
  /\ Len(ev.g.pts) <= MaxMoves
  /\ \E yy \in SnappedY(y) :
       LET s == draw_px(doc[1], x, yy)
           note == doc[1].tool = "note"
       IN  /\ doc' = <<s>>
           /\ ev' = [ev EXCEPT
                       !.kind = "move", !.x = x,
                       !.py = IF note THEN y ELSE 0,
                       !.yy = IF note THEN yy ELSE 0,
                       !.changed = Changed(doc[1].ink, s.ink),
                       !.g.pts = Append(@, x)]
  /\ UNCHANGED <<text, nextId, stored, ls, deb, ghosts, burst>>

\* mouseup / touchend on window; the save it requests is followed in Spec
PointerUpPx ==
  /\ doc[1].isDrawing
  /\ doc' = <<stopDrawing_px(doc[1])>>
  /\ ev' = [ev EXCEPT !.kind = "up", !.changed = {}]
  /\ UNCHANGED <<text, nextId, stored, ls, deb, ghosts, burst>>

\* gestures of the three tools on one ink canvas
NextInk ==
  \/ \E t \in Tools : SetToolPx(t)
  \/ \E x \in Taps, y \in TapYs : PointerDownPx(x, y, FALSE)
  \/ \E x \in Taps, y \in TapYs : PointerMovePx(x, y)
  \/ PointerUpPx

SpecInk == InitInk /\ [][NextInk]_vars

\* pencil and eraser strokes on one ink canvas, each with the one before it
NextStroke ==
  \/ \E t \in {"write", "erase"} : SetToolPx(t)
  \/ \E x \in Taps : PointerDownPx(x, displayHeight \div 2, TRUE)
  \/ \E x \in Taps : PointerMovePx(x, displayHeight \div 2)
  \/ PointerUpPx

SpecStroke == InitInk /\ [][NextStroke]_vars

\* C35: every pointer-down is matched by exactly one gesture end, a second
\* pointer-down during a gesture opens no nested one: whenever the widget is
\* Idle, the saved-state depth of its ink context is zero and its compositing
\* mode is the default one.
C35_IdleContextIsBase ==
  ~doc[1].isDrawing =>
    /\ Len(doc[1].ctx.stack) = 0
    /\ doc[1].ctx.gco = "source-over"

\* the columns a pencil stroke through the points pts covers; a pointer-down
\* with no pointer-move strokes nothing
PencilCovers(pts, c) ==
  /\ Len(pts) > 1
  /\ StrokeLo(pts, pencilWidth) <= c /\ c < StrokeHi(pts, pencilWidth)

\* an erase stroke ended that went through the very points of the pencil
\* stroke before it
ErasedSamePath ==
  /\ ev.kind = "up"
  /\ ev.g.tool = "erase" /\ ev.prev.tool = "write"
  /\ ev.g.pts = ev.prev.pts

\* C22: a pencil stroke followed by an erase stroke along the same points
\* leaves no ink at any position the pencil stroke covered, and an ink layer
\* that was empty before the two strokes is empty again.
C22_EraseCancelsPencil ==
  ErasedSamePath =>
    /\ \A c \in Cols : PencilCovers(ev.prev.pts, c) => doc[1].ink[c] = NoInk
    /\ ev.prev.blank0 => doc[1].ink = BlankPx

\* a pencil stroke with a move on a blank canvas was erased along its path
C22_Witness ==
  /\ ErasedSamePath
  /\ Len(ev.g.pts) > 1 /\ ev.g.pts[1] # ev.g.pts[2]
  /\ ev.prev.blank0 /\ doc[1].ink = BlankPx

\* the whole note-head centred at (x, yy) is in the ink
NoteheadAt(ink, x, yy) ==
  \A c \in Cols :
    (x * Sub - NoteReach <= c /\ c < x * Sub + NoteReach) =>
      ink[c] = NoteInk(x, yy)

\* the half-lines of the staff and of the ledger space above and below it
HalfLines ==
  {Rat(k, 2) : k \in (-staffLedgerSpace)..(2 * numStaffLines + staffLedgerSpace)}

\* the y at which the half-lines are drawn
HalfLineYs ==
  {r.n \div r.d :
     r \in UNION {getYForStaffLineNumber(line, getLineSpacing(displayHeight)) :
                    line \in HalfLines}}

Dist(a, b) == IF a < b THEN b - a ELSE a - b

\* the y of the half-lines no other half-line is nearer to y than
NearestHalfLineYs(y) ==
  {yy \in HalfLineYs : \A other \in HalfLineYs : Dist(y, yy) <= Dist(y, other)}

\* a gesture of the note tool ended that began while the widget was Idle
NoteGestureEnded ==
  /\ ev.kind = "up"
  /\ ev.g.tool = "note" /\ ~ev.g.nested

\* C26: with the note tool, a pointer-down on the ink surface followed by
\* pointer-up with no pointer-move in between leaves exactly one new
\* note-head in the ink layer, centred at the pointer's x and at the y of the
\* nearest half-line.
C26_TapLeavesNotehead ==
  (NoteGestureEnded /\ Len(ev.g.pts) = 1) =>
    /\ ev.yy \in NearestHalfLineYs(ev.py)
    /\ NoteheadAt(doc[1].ink, ev.x, ev.yy)

\* C27: a note-tool gesture with any number of pointer-moves leaves exactly
\* one note-head from that gesture in the ink layer, at the snapped position
\* of the last honoured pointer event; no note-head stamped at an earlier
\* point of the same gesture remains.
C27_DragLeavesOneNotehead ==
  NoteGestureEnded =>
    /\ NoteheadAt(doc[1].ink, ev.x, ev.yy)
    /\ \A c \in Cols :
         doc[1].ink[c].k = "n" /\ doc[1].ink[c].x # ev.x =>
           \A i \in DOMAIN ev.g.pts : ev.g.pts[i] # doc[1].ink[c].x

\* the band around x that a stamp centred at x clears: 0.6 lineSpacing to
\* each side
InBand(x, c) == x * Sub - NoteMargin <= c /\ c < x * Sub + NoteMargin

\* the pointer's x at the event before the last one of the gesture
PrevX ==
  IF Len(ev.g.pts) > 1 THEN ev.g.pts[Len(ev.g.pts) - 1] ELSE ev.x

\* C28: stamping a note-head centred at x clears only a horizontal band
\* around x whose width is determined by the line spacing alone; all ink
\* outside that band (pencil strokes and other note-heads) is unchanged by
\* the stamp, on pointer-down and on every pointer-move of a note gesture.
\* The note-head the gesture stamped at its previous point, which the move
\* takes away, is not counted as other ink: the band around that point is
\* allowed to change too.
C28_StampClearsBandOnly ==
  (ev.kind \in {"down", "move"} /\ ev.g.tool = "note") =>
    \A c \in ev.changed : InBand(ev.x, c) \/ InBand(PrevX, c)

====
